---------------------------- MODULE Spec2Model ----------------------------
(***************************************************************************)
(* Verification model of the tk-config-unreal_ww publish and launch hooks. *)
(*                                                                         *)
(* The hooks are modelled one by one, each with a specification of its     *)
(* own in which the others stay idle:                                      *)
(*   SpecLaunch    hooks/app_launch.py, AppLaunch.execute                  *)
(*   SpecVersion   backup/unreal_asset_publish.py, _get_next_version       *)
(*   SpecValidate  basic/publish_asset.py, validate                        *)
(*   SpecPost      backup/post_phase.py, post_publish and post_finalize    *)
(*   SpecExport    backup/post_phase.py, _export_maya_fbx call by call     *)
(*   SpecRender    basic/publish_movie.py, the two movie renderers         *)
(*   SpecAsset     basic/publish_asset.py, publish                         *)
(*   SpecMaya      basic/publish_movie.py, _publish_maya                   *)
(*   SpecMoviePublisher  tk-unreal/movie_publisher.py, publish             *)
(*   SpecBackup    backup/unreal_asset_publish.py, accept to publish       *)
(*                                                                         *)
(* Character strings are sequences of one-character strings, so that       *)
(* formatting, suffix tests and pattern searches are computed and not      *)
(* assumed.  A call that runs a command or an export in the DCC, queries   *)
(* or writes the tracking database, or touches the file system or a        *)
(* process either returns or raises; the outcome is an input of the        *)
(* action.  Building an object of the DCC's API and reading or setting     *)
(* its properties returns.                                                 *)
(***************************************************************************)
EXTENDS Integers, Sequences, FiniteSets, TLC

VARIABLES
    \* ---- hooks/app_launch.py
    launch_call,      \* arguments and platform of the last execute call
    launch_outcome,   \* "none", "returned" or "raised" for that call
    launch_result,    \* the dictionary execute returned
    shell,            \* commands handed to os.system during that call
    shell_codes,      \* exit code the OS gave for each of them
    sys_path_packages, \* whether packages/win was appended to sys.path
    \* ---- backup/unreal_asset_publish.py, _get_next_version
    gnv_pc,           \* "idle", "scan" (in the for loop) or "done"
    gnv_paths,        \* what paths_from_template returned, one entry per path
    gnv_i,            \* index of the next existing path the loop reads
    gnv_version,      \* the local variable version
    gnv_seen,         \* the cur_version values read so far
    gnv_error,        \* whether the except clause ran
    gnv_outcome,      \* "none", "returned" or "raised"
    gnv_result,       \* the value returned
    \* ---- basic/publish_asset.py, validate
    item_path,        \* item.properties["path"]: [has, value]
    item_asset_name,  \* item.properties["asset_name"]: [has, value]
    item_publish_path, \* item.properties["publish_path"], <<>> when not set
    item_fields,      \* item.properties["fields"], <<>> when not set
    val_call,         \* what the toolkit answered during the validate call
    val_ret,          \* "none", "True", "False"
    \* ---- backup/post_phase.py
    tree,             \* the publish tree: its items, their tasks and uuids
    hook_tree_path,   \* self.__TREE_FILE_PATH: [set, dir, name]
    fs_dirs,          \* directories that exist
    fs_files,         \* files that exist
    uuid_next,        \* how many uuid4 values have been drawn
    pp_pc,            \* position inside post_publish, "idle" outside
    pp_i,             \* index of the item the current loop is at
    pp_log,           \* file-system and DCC calls of the current post_publish
    pp_call,          \* root flags, outcome and temporary folder of that call
    pp_calls,         \* how many post_publish calls the hook has had
    pp_last_tmp,      \* the newest temporary folder and whether its tree
                      \* file was saved
    monitor_data,     \* monitor_data["items"] of the current post_publish
    saved_tree,       \* what save_file wrote in the current post_publish:
                      \* [written, items]
    saved_monitor,    \* what safe_dump wrote in it: [written, items]
    pf_call,          \* root flags and outcome of the last post_finalize
    pf_launched,      \* paths that call handed to launch_publish_process;
                      \* both are cleared when the next post_publish begins
    \* ---- backup/post_phase.py, _export_maya_fbx step by step
    exp_pc,           \* "idle", "options", "export", "register" or "done"
    exp_path,         \* item.properties.get("path", "")
    exp_k,            \* index of the next option command
    exp_log,          \* calls made on the publisher and on Maya, in order
    exp_result,       \* "none", "True", "False" or "raised"
    \* ---- basic/publish_movie.py, the two movie renderers
    os_environ,       \* os.environ of the calling process: name -> value
    movie_file,       \* the file at output_path: "missing", "old" (there
                      \* before the call) or "rendered" (written by the
                      \* render subprocess of the call)
    rnd_pc,           \* position inside the renderer, "idle" outside
    rnd_call,         \* renderer, shot_name, file and environment at call
    job_shots,        \* job.shot_info: name and enabled flag of each shot
    manifest_saved,   \* whether the queue manifest was saved in this call
    sub_runs,         \* environment and exit code of each render
                      \* subprocess of this call
    rnd_result,       \* outcome of the call and the pair it returned
    \* ---- basic/publish_asset.py, publish
    ap_pc,            \* "idle", "export", "register" or "done"
    ap_item,          \* item.properties: publish_path and unreal_asset_path
    ap_log,           \* calls publish made, their argument and outcome
    ap_result,        \* "none", "True" or "raised"
    ap_files,         \* FBX files the export tasks have written
    ap_publishes,     \* paths registered as publishes
    \* ---- basic/publish_movie.py, _publish_maya
    maya_panel,       \* the panel with focus: its type, its camera and
                      \* the three display settings of its model editor
    maya_cameras,     \* cmds.ls(type="camera", long=True)
    maya_pc,          \* "idle", "playblast", "restore" or "done"
    maya_call,        \* the panel as it was when _publish_maya was called,
                      \* and how the playblast ended
    original_settings, \* the dictionary original_settings
    maya_result,      \* "none", "True", "False" or "raised"
    \* ---- tk-unreal/movie_publisher.py, MoviePublisher.publish
    mpub_pc,          \* "idle", "folder", "copy", "register" or "done"
    mpub_item,        \* the item: has it a movie_path, and which; the
                      \* publish path the template made of it
    mpub_log,         \* the calls made by the current publish, in order
    mpub_result,      \* "none", "True" or "raised"
    mpub_fs,          \* the folders and files that exist
    mpub_publishes,   \* paths registered as publishes
    \* ---- backup/unreal_asset_publish.py, accept, validate and publish
    bk_pc,            \* "idle", "accepted", "rejected", "valid", "invalid",
                      \* "export", "register" or "done"
    bk_item,          \* the properties of the item
    bk_ret,           \* what accept, validate and publish returned
    bk_log,           \* the calls made by publish, in order
    bk_files,         \* export paths written
    bk_publishes      \* paths registered as publishes

launch_vars ==
    <<launch_call, launch_outcome, launch_result, shell, shell_codes,
      sys_path_packages>>

gnv_vars ==
    <<gnv_pc, gnv_paths, gnv_i, gnv_version, gnv_seen, gnv_error, gnv_outcome,
      gnv_result>>

val_vars ==
    <<item_path, item_asset_name, item_publish_path, item_fields, val_call,
      val_ret>>

post_vars ==
    <<tree, hook_tree_path, fs_dirs, fs_files, uuid_next, pp_pc, pp_i, pp_log,
      pp_call, pp_calls, pp_last_tmp, monitor_data, saved_tree, saved_monitor,
      pf_call, pf_launched>>

export_vars == <<exp_pc, exp_path, exp_k, exp_log, exp_result>>

\* The hooks modelled first, and the ones added after them.
base_vars == <<launch_vars, gnv_vars, val_vars, post_vars>>

render_vars ==
    <<os_environ, movie_file, rnd_pc, rnd_call, job_shots, manifest_saved,
      sub_runs, rnd_result>>

asset_vars == <<ap_pc, ap_item, ap_log, ap_result, ap_files, ap_publishes>>

maya_vars ==
    <<maya_panel, maya_cameras, maya_pc, maya_call, original_settings,
      maya_result>>

\* The hooks modelled last, and for each of them all other variables.
mpub_vars ==
    <<mpub_pc, mpub_item, mpub_log, mpub_result, mpub_fs, mpub_publishes>>

backup_vars == <<bk_pc, bk_item, bk_ret, bk_log, bk_files, bk_publishes>>

more_vars == <<maya_vars, mpub_vars, backup_vars>>

first_vars == <<base_vars, export_vars, render_vars, asset_vars>>

not_maya_vars == <<first_vars, mpub_vars, backup_vars>>

not_mpub_vars == <<first_vars, maya_vars, backup_vars>>

not_backup_vars == <<first_vars, maya_vars, mpub_vars>>

ext_vars == <<export_vars, render_vars, asset_vars, more_vars>>

vars == <<base_vars, ext_vars>>

-----------------------------------------------------------------------------
(***************************************************************************)
(* Strings                                                                 *)
(***************************************************************************)

\* str.endswith(suffix)
EndsWith(s, suffix) ==
    /\ Len(s) >= Len(suffix)
    /\ SubSeq(s, Len(s) - Len(suffix) + 1, Len(s)) = suffix

-----------------------------------------------------------------------------
(***************************************************************************)
(* hooks/app_launch.py                                                     *)
(***************************************************************************)

\* The ENGINES table: engine name -> application name.
ENGINES ==
    [e \in {"tk-houdini", "tk-maya", "tk-nuke", "tk-nukestudio", "tk-mari",
            "tk-clarisse", "tk-unreal"} |->
        CASE e = "tk-houdini"    -> "houdini"
          [] e = "tk-maya"       -> "maya"
          [] e = "tk-nuke"       -> "nuke"
          [] e = "tk-nukestudio" -> "nuke"
          [] e = "tk-mari"       -> "mari"
          [] e = "tk-clarisse"   -> "clarisse"
          [] e = "tk-unreal"     -> "unreal"]

\* Engine names a caller passes: two known ones and one ENGINES lacks.
EngineNames == {"tk-maya", "tk-unreal", "tk-photoshop"}

\* platform.system() of the host; tank.util.is_linux / is_macos read the same host.
Platforms == {"Linux", "Darwin", "Windows", "FreeBSD"}

is_linux(system) == system = "Linux"

is_macos(system) == system = "Darwin"

\* Executable paths: plain ones, app bundles, and near misses of ".app".
AppPaths ==
    { <<"/", "u">>,
      <<"/", "U", ".", "a", "p", "p">>,
      <<"a", "p", "p">>,
      <<"U", ".", "a", "p", "p", "x">> }

\* Argument strings: none, or one flag.
AppArgs == { <<>>, <<"-", "x">> }

\* Exit codes os.system may hand back.
ExitCodes == {0, 1, 256}

\* "%s %s &" % (app_path, app_args)
BackgroundCmd(app_path, app_args) ==
    app_path \o <<" ">> \o app_args \o <<" ", "&">>

\* 'open -n -a "%s"' % app_path, then " --args %s" % app_args when app_args
OpenCmd(app_path, app_args) ==
    LET open == <<"o", "p", "e", "n", " ", "-", "n", " ", "-", "a", " ", "\"">>
                    \o app_path \o <<"\"">>
    IN  IF app_args # <<>>
        THEN open \o <<" ", "-", "-", "a", "r", "g", "s", " ">> \o app_args
        ELSE open

\* 'start /B "App" "%s" %s' % (app_path, app_args)
StartCmd(app_path, app_args) ==
    <<"s", "t", "a", "r", "t", " ", "/", "B", " ", "\"", "A", "p", "p", "\"",
      " ", "\"">> \o app_path \o <<"\"", " ">> \o app_args

\* Launch logic that passes --args to every app bundle.
BuildCommandAlwaysArgs(system, app_path, app_args) ==
    IF is_linux(system) THEN BackgroundCmd(app_path, app_args)
    ELSE IF is_macos(system)
         THEN IF EndsWith(app_path, <<".", "a", "p", "p">>)
              THEN <<"o", "p", "e", "n", " ", "-", "n", " ", "-", "a", " ", "\"">>
                       \o app_path
                       \o <<"\"", " ", "-", "-", "a", "r", "g", "s", " ">>
                       \o app_args
              ELSE BackgroundCmd(app_path, app_args)
         ELSE StartCmd(app_path, app_args)

\* The "Default launch logic" branches.
BuildCommand(system, app_path, app_args) ==
    IF is_linux(system) THEN BackgroundCmd(app_path, app_args)
    ELSE IF is_macos(system)
         THEN IF EndsWith(app_path, <<".", "a", "p", "p">>)
              THEN OpenCmd(app_path, app_args)
              ELSE BackgroundCmd(app_path, app_args)
         ELSE StartCmd(app_path, app_args)

\* A launch that runs the command again when the first run failed.
CommandsToRunRetry(cmd, exit_code) ==
    IF exit_code # 0 THEN <<cmd, cmd>> ELSE <<cmd>>

\* The commands execute hands to os.system, in order: one, whatever it returns.
CommandsToRun(cmd, exit_code) == <<cmd>>

\* A result that reports success whatever the OS said.
ReturnValueZero(cmd, exit_code) == [command |-> cmd, return_code |-> 0]

\* {"command": cmd, "return_code": exit_code}
ReturnValue(cmd, exit_code) == [command |-> cmd, return_code |-> exit_code]

\* The Unreal special case: packages/win goes on sys.path.
AppendsPackages(py_major, app_name, system) ==
    py_major = 3 /\ app_name = "unreal" /\ system = "Windows"

NoResult == [command |-> <<>>]

\* execute(app_path, app_args, version, engine_name): the whole call.
\* toolkit_ok is whether context_from_path and the Department query returned.
execute(app_path, app_args, engine_name, system, py_major, toolkit_ok, exit_code) ==
    /\ launch_call' = [app_path |-> app_path, app_args |-> app_args,
                       engine_name |-> engine_name, system |-> system]
    /\ IF engine_name \notin DOMAIN ENGINES
       THEN \* ENGINES[engine_name] raises KeyError
            /\ launch_outcome' = "raised"
            /\ launch_result' = NoResult
            /\ shell' = <<>>
            /\ shell_codes' = <<>>
            /\ UNCHANGED sys_path_packages
       ELSE IF ~toolkit_ok
       THEN \* context_from_path or sg.find_one raises
            /\ launch_outcome' = "raised"
            /\ launch_result' = NoResult
            /\ shell' = <<>>
            /\ shell_codes' = <<>>
            /\ UNCHANGED sys_path_packages
       ELSE LET cmd == BuildCommand(system, app_path, app_args)
                run == CommandsToRun(cmd, exit_code)
            IN  /\ sys_path_packages' =
                      (sys_path_packages
                          \/ AppendsPackages(py_major, ENGINES[engine_name], system))
                /\ shell' = run
                /\ shell_codes' = [i \in 1..Len(run) |-> exit_code]
                /\ launch_result' = ReturnValue(cmd, exit_code)
                /\ launch_outcome' = "returned"

Execute ==
    \E app_path \in AppPaths, app_args \in AppArgs, engine_name \in EngineNames,
       system \in Platforms, py_major \in {2, 3}, toolkit_ok \in BOOLEAN,
       exit_code \in ExitCodes :
        execute(app_path, app_args, engine_name, system, py_major, toolkit_ok,
                exit_code)

LaunchIdle ==
    /\ launch_call = [app_path |-> <<>>, app_args |-> <<>>,
                      engine_name |-> "tk-maya", system |-> "Linux"]
    /\ launch_outcome = "none"
    /\ launch_result = NoResult
    /\ shell = <<>>
    /\ shell_codes = <<>>
    /\ sys_path_packages = FALSE

-----------------------------------------------------------------------------
(***************************************************************************)
(* backup/unreal_asset_publish.py: _get_next_version                       *)
(***************************************************************************)

\* Most existing paths a query returns.
MaxPaths == 3

\* Highest version number an existing path carries.
MaxVersion == 3

\* The fields of a path of a template that has no version key.
NoVersionField == [name |-> "asset"]

\* dict.get(key, default)
Get(fields, key, default) ==
    IF key \in DOMAIN fields THEN fields[key] ELSE default

\* What template.get_fields does for one existing path: it raises, or it
\* returns the path's fields, with or without a version.
PathOutcomes ==
    {[raises |-> TRUE, fields |-> NoVersionField],
     [raises |-> FALSE, fields |-> NoVersionField]}
    \cup {[raises |-> FALSE, fields |-> [name |-> "asset", version |-> v]] :
             v \in 0..MaxVersion}

\* What paths_from_template returns: the existing paths, none to MaxPaths.
PathLists == UNION {[1..n -> PathOutcomes] : n \in 0..MaxPaths}

\* A scan that keeps the version it started with.
KeepVersion(version, cur_version) == version

\* if cur_version > version: version = cur_version
HigherVersion(version, cur_version) ==
    IF cur_version > version THEN cur_version ELSE version

\* An except clause that returns what the scan had reached.
ExceptReturnScanned(version) == [outcome |-> "returned", value |-> version + 1]

\* except Exception: return 1
ExceptReturn(version) == [outcome |-> "returned", value |-> 1]

\* _get_next_version is called; paths_from_template returns or raises.
GetNextVersion_Query ==
    /\ gnv_pc \in {"idle", "done"}
    /\ gnv_i' = 1
    /\ gnv_seen' = <<>>
    /\ gnv_version' = 1
    /\ \/ \E paths \in PathLists :
             /\ gnv_paths' = paths
             /\ gnv_pc' = "scan"
             /\ gnv_error' = FALSE
             /\ gnv_outcome' = "none"
             /\ gnv_result' = 0
       \/ /\ gnv_paths' = <<>>
          /\ gnv_pc' = "done"
          /\ gnv_error' = TRUE
          /\ gnv_outcome' = ExceptReturn(1).outcome
          /\ gnv_result' = ExceptReturn(1).value
    /\ UNCHANGED <<ext_vars, launch_vars, val_vars, post_vars>>

\* One iteration of "for existing_version in existing_versions".
GetNextVersion_Scan ==
    /\ gnv_pc = "scan"
    /\ gnv_i <= Len(gnv_paths)
    /\ LET p == gnv_paths[gnv_i]
           cur_version == Get(p.fields, "version", 0)
       IN  IF p.raises
           THEN /\ gnv_pc' = "done"
                /\ gnv_error' = TRUE
                /\ gnv_outcome' = ExceptReturn(gnv_version).outcome
                /\ gnv_result' = ExceptReturn(gnv_version).value
                /\ UNCHANGED <<gnv_i, gnv_version, gnv_seen>>
           ELSE /\ gnv_version' = HigherVersion(gnv_version, cur_version)
                /\ gnv_seen' = Append(gnv_seen, cur_version)
                /\ gnv_i' = gnv_i + 1
                /\ UNCHANGED <<gnv_pc, gnv_error, gnv_outcome, gnv_result>>
    /\ UNCHANGED <<ext_vars, launch_vars, val_vars, post_vars, gnv_paths>>

\* The loop is over: version += 1; return version.
GetNextVersion_Return ==
    /\ gnv_pc = "scan"
    /\ gnv_i > Len(gnv_paths)
    /\ gnv_version' = gnv_version + 1
    /\ gnv_result' = gnv_version + 1
    /\ gnv_outcome' = "returned"
    /\ gnv_pc' = "done"
    /\ UNCHANGED <<ext_vars, launch_vars, val_vars, post_vars, gnv_paths, gnv_i, gnv_seen, gnv_error>>

VersionIdle ==
    /\ gnv_pc = "idle"
    /\ gnv_paths = <<>>
    /\ gnv_i = 1
    /\ gnv_version = 1
    /\ gnv_seen = <<>>
    /\ gnv_error = FALSE
    /\ gnv_outcome = "none"
    /\ gnv_result = 0

-----------------------------------------------------------------------------
(***************************************************************************)
(* basic/publish_asset.py: validate                                        *)
(***************************************************************************)

\* Longest item path.
MaxPathLen == 4

\* Characters of an item path: the version letter, digits, the separator,
\* another letter and the dot.
PathChars == {"v", "1", "2", "/", "a", "."}

Paths == UNION {[1..n -> PathChars] : n \in 0..MaxPathLen}

Digits == {"0", "1", "2", "3", "4", "5", "6", "7", "8", "9"}

DigitValue(c) ==
    CASE c = "0" -> 0 [] c = "1" -> 1 [] c = "2" -> 2 [] c = "3" -> 3
      [] c = "4" -> 4 [] c = "5" -> 5 [] c = "6" -> 6 [] c = "7" -> 7
      [] c = "8" -> 8 [] c = "9" -> 9

\* "v" under re.IGNORECASE
IsV(c) == c \in {"v", "V"}

IsDigitAt(s, i) == i >= 1 /\ i <= Len(s) /\ s[i] \in Digits

\* Where group 1 starts when \.?v(\d+) matches at position i, 0 when it does
\* not match there: first with the dot taken, then without it.
MatchAt(s, i) ==
    IF /\ s[i] = "." /\ i + 1 <= Len(s) /\ IsV(s[i + 1]) /\ IsDigitAt(s, i + 2)
    THEN i + 2
    ELSE IF IsV(s[i]) /\ IsDigitAt(s, i + 1) THEN i + 1 ELSE 0

\* Last index of the run of digits that starts at i: \d+ is greedy.
RECURSIVE DigitsEnd(_, _)
DigitsEnd(s, i) == IF IsDigitAt(s, i + 1) THEN DigitsEnd(s, i + 1) ELSE i

\* int() of the digits s[i..j]
RECURSIVE IntOf(_, _, _)
IntOf(s, i, j) ==
    IF j < i THEN 0 ELSE IntOf(s, i, j - 1) * 10 + DigitValue(s[j])

\* version_pattern.search(s): the leftmost match, as [found, version].
Search(s) ==
    LET starts == {i \in 1..Len(s) : MatchAt(s, i) # 0}
    IN  IF starts = {}
        THEN [found |-> FALSE, version |-> 0]
        ELSE LET i == CHOOSE k \in starts : \A m \in starts : k <= m
                 d == MatchAt(s, i)
             IN  [found |-> TRUE, version |-> IntOf(s, d, DigitsEnd(s, d))]

\* "Get version from path or default to 1"
VersionFromPath(path) ==
    IF path.has /\ path.value # <<>> /\ Search(path.value).found
    THEN Search(path.value).version
    ELSE 1

\* d[k] = v on a dictionary
Put(d, k, v) == [x \in DOMAIN d \cup {k} |-> IF x = k THEN v ELSE d[x]]

EmptyDict == <<>>

Unset == <<>>

\* context.entity: None, an object that is no dict, or a dict whose code and
\* sg_asset_type are a value or empty ("" stands for None and for "").
Entities ==
    {[kind |-> "none", code |-> "", sg_asset_type |-> ""],
     [kind |-> "object", code |-> "", sg_asset_type |-> ""]}
    \cup {[kind |-> "dict", code |-> c, sg_asset_type |-> t] :
             c \in {"", "Rock"}, t \in {"", "Prop"}}

\* context.step, likewise.
Steps ==
    {[kind |-> "none", short_name |-> ""],
     [kind |-> "object", short_name |-> ""]}
    \cup {[kind |-> "dict", short_name |-> n] : n \in {"", "MDL"}}

\* context.as_template_fields(publish_template): raises, or the fields the
\* context knows: none (Shot = "" stands for the empty dict) or a Shot.
ContextFields ==
    {[raises |-> TRUE, fields |-> [Shot |-> ""]],
     [raises |-> FALSE, fields |-> [Shot |-> ""]],
     [raises |-> FALSE, fields |-> [Shot |-> "s1"]]}

\* The keys of the publish template.
TemplateKeys ==
    {{"Asset", "sg_asset_type", "Step", "version", "name"},
     {"Asset", "sg_asset_type", "Step", "version", "name", "Shot"}}

\* publish_template.missing_keys(fields)
missing_keys(keys, fields) == keys \ DOMAIN fields

\* publish_template.apply_fields(fields): the path the fields name.
apply_fields(fields) ==
    <<fields["sg_asset_type"], fields["Asset"], fields["Step"], fields["name"],
      fields["version"]>>

\* The fields validate has collected when it asks the template.
CollectedFields(ctx_fields, entity, step, path, asset_name) ==
    LET f0 == IF ctx_fields.raises \/ ctx_fields.fields.Shot = ""
              THEN EmptyDict
              ELSE [Shot |-> ctx_fields.fields.Shot]
        f1 == Put(f0, "Asset", entity.code)
        f2 == Put(f1, "sg_asset_type", entity.sg_asset_type)
        f3 == Put(f2, "Step", step.short_name)
        f4 == Put(f3, "version", VersionFromPath(path))
        f5 == Put(f4, "name",
                  IF asset_name.has THEN asset_name.value ELSE "unknown")
        f6 == Put(f5, "YYYY", 2026)
        f7 == Put(f6, "MM", 11)
    IN  Put(f7, "DD", 4)

NoCall ==
    [template_found |-> FALSE, has_context |-> FALSE,
     entity |-> [kind |-> "none", code |-> "", sg_asset_type |-> ""],
     step |-> [kind |-> "none", short_name |-> ""],
     missing |-> {}, applied |-> FALSE]

\* validate ends: val_ret and what the call had seen.
ValidateReturns(ret, call) ==
    /\ val_ret' = ret
    /\ val_call' = call

\* A return of False that also drops what an earlier validation left.
ValidateFalseClears(call) ==
    /\ ValidateReturns("False", call)
    /\ item_publish_path' = Unset
    /\ item_fields' = Unset

\* return False: the item's properties are not written.
ValidateFalse(call) ==
    /\ ValidateReturns("False", call)
    /\ UNCHANGED <<item_publish_path, item_fields>>

\* validate(settings, item): the whole call.
Validate ==
    /\ val_ret = "none"
    /\ UNCHANGED <<ext_vars, launch_vars, gnv_vars, post_vars, item_path, item_asset_name>>
    /\ \E template_found \in BOOLEAN :
         IF ~template_found THEN ValidateFalse(NoCall)
         ELSE \E has_context \in BOOLEAN :
         LET c1 == [NoCall EXCEPT !.template_found = TRUE,
                                  !.has_context = has_context]
         IN
         IF ~has_context THEN ValidateFalse(c1)
         ELSE \E entity \in Entities :
         LET c2 == [c1 EXCEPT !.entity = entity] IN
         IF entity.kind # "dict" \/ entity.code = "" \/ entity.sg_asset_type = ""
         THEN ValidateFalse(c2)
         ELSE \E step \in Steps :
         LET c3 == [c2 EXCEPT !.step = step] IN
         IF step.kind # "dict" \/ step.short_name = ""
         THEN ValidateFalse(c3)
         ELSE \E ctx_fields \in ContextFields, keys \in TemplateKeys :
         LET fields == CollectedFields(ctx_fields, entity, step, item_path,
                                       item_asset_name)
             c4 == [c3 EXCEPT !.missing = missing_keys(keys, fields)]
         IN
         IF missing_keys(keys, fields) # {} THEN ValidateFalse(c4)
         ELSE \E apply_raises \in BOOLEAN :
         IF apply_raises THEN ValidateFalse(c4)
         ELSE /\ item_publish_path' = apply_fields(fields)
              /\ item_fields' = fields
              /\ ValidateReturns("True", [c4 EXCEPT !.applied = TRUE])

\* The item before validate runs: the collector may have set a path and an
\* asset name, and an earlier validation may have left a publish path.
ValidateIdle ==
    /\ val_ret = "none"
    /\ val_call = NoCall
    /\ item_path = [has |-> FALSE, value |-> <<>>]
    /\ item_asset_name = [has |-> FALSE, value |-> ""]
    /\ item_publish_path = Unset
    /\ item_fields = Unset

-----------------------------------------------------------------------------
(***************************************************************************)
(* backup/post_phase.py: post_publish and post_finalize                    *)
(***************************************************************************)

\* Most items in a publish tree.
MaxItems == 2

\* Most post_publish calls on one hook instance.
MaxCalls == 2

FbxItemType == "maya.fbx.unreal"

\* A publish task: all tasks have the same name, and no "Task UUID"
\* setting (uuid 0) to begin with.
Task(active) == [name |-> "Publish", active |-> active, uuid |-> 0]

\* Items a publish tree is made of (uuid 0: none assigned): an FBX item
\* with a path and an active task, an FBX item of the same name without
\* path whose only task is inactive, and a session item with an inactive
\* task between two active ones.
ItemShapes ==
    {[name |-> "asset", type |-> FbxItemType, path |-> <<"d", "/", "a">>,
      tasks |-> <<Task(TRUE)>>, uuid |-> 0],
     [name |-> "asset", type |-> FbxItemType, path |-> <<>>,
      tasks |-> <<Task(FALSE)>>, uuid |-> 0],
     [name |-> "scene", type |-> "maya.session", path |-> <<>>,
      tasks |-> <<Task(TRUE), Task(FALSE), Task(TRUE)>>, uuid |-> 0]}

Trees == UNION {[1..n -> ItemShapes] : n \in 0..MaxItems}

\* A directory: parent itself (tmp = 0) or the tmp-th directory that
\* mkdtemp made in parent.
Dir(parent, tmp) == [parent |-> parent, tmp |-> tmp]

\* A file: its directory and its name, a string as a tuple.
File(dir, name) == [dir |-> dir, name |-> name]

\* os.path.dirname
Dirname(s) ==
    LET seps == {i \in 1..Len(s) : s[i] = "/"}
    IN  IF seps = {} THEN <<>>
        ELSE LET k == CHOOSE x \in seps : \A m \in seps : m <= x
                 head == SubSeq(s, 1, k)
                 cut == {j \in 1..k : \A m \in j..k : s[m] = "/"}
                 first == CHOOSE x \in cut : \A m \in cut : x <= m
             IN  IF first = 1 THEN head ELSE SubSeq(s, 1, first - 1)

\* os.path.basename
Basename(s) == SubSeq(s, Len(Dirname(s)) + (IF Dirname(s) = <<>> THEN 1 ELSE 2), Len(s))

\* os.path.join(bg_publish_app.cache_location, current_engine.name)
RootFolderPath == Dir(<<"cache_location", "tk-maya">>, 0)

\* os.path.join(tmp_folder_path, "publish_tree.yml")
TreeFilePath(tmp_folder_path) == File(tmp_folder_path, <<"publish_tree.yml">>)

\* os.path.join(tmp_folder_path, "monitor.yml")
MonitorFilePath(tmp_folder_path) == File(tmp_folder_path, <<"monitor.yml">>)

\* tempfile.mkdtemp(dir=parent): a directory that did not exist.
Mkdtemp(parent) ==
    LET used == {d.tmp : d \in {x \in fs_dirs : x.parent = parent.parent}}
    IN  Dir(parent.parent,
            1 + (IF used = {} THEN 0
                 ELSE CHOOSE n \in used : \A m \in used : m <= n))

NoPath == [set |-> FALSE, dir |-> Dir(<<>>, 0), name |-> <<>>]

SetPath(file) == [set |-> TRUE, dir |-> file.dir, name |-> file.name]

\* One call the hook made on the file system, Maya or the publisher.
Event(ev, dir, name, new) == [ev |-> ev, dir |-> dir, name |-> name, new |-> new]

NoTmp == [set |-> FALSE, dir |-> Dir(<<>>, 0), saved |-> FALSE]

NoCallYet ==
    [bg_processing |-> FALSE, in_bg_process |-> FALSE, outcome |-> "none",
     tmp |-> 0]

\* A background-mode root that hands files over in the background process too.
WantsBackgroundAlways(bg_processing, in_bg_process) == bg_processing

\* not (not bg_processing or in_bg_process)
WantsBackground(bg_processing, in_bg_process) ==
    ~(~bg_processing \/ in_bg_process)

\* bg_publish_app.constants.WAITING_TO_START
WAITING_TO_START == "WAITING_TO_START"

\* The current post_publish has not written the yml file.
NotWritten == [written |-> FALSE, items |-> <<>>]

\* No post_finalize has run since the last post_publish began.
NoFinalize ==
    [call |-> [bg_processing |-> FALSE, in_bg_process |-> FALSE],
     outcome |-> "none", panel |-> FALSE]

\* post_publish ends: it returns, or an exception leaves it.
PostPublish_End(outcome) ==
    /\ pp_pc' = "idle"
    /\ pp_call' = [pp_call EXCEPT !.outcome = outcome]

\* post_publish(publish_tree) is called on a tree whose root item carries
\* the flags bg_processing and in_bg_process.
PostPublish_Call ==
    /\ pp_pc = "idle"
    /\ pp_calls < MaxCalls
    /\ pp_calls' = pp_calls + 1
    /\ \E bg_processing \in BOOLEAN, in_bg_process \in BOOLEAN :
         pp_call' = [bg_processing |-> bg_processing,
                     in_bg_process |-> in_bg_process,
                     outcome |-> "running", tmp |-> 0]
    /\ pp_log' = <<>>
    /\ pp_pc' = "export"
    /\ pp_i' = 1
    /\ pf_call' = NoFinalize
    /\ pf_launched' = <<>>
    /\ monitor_data' = <<>>
    /\ saved_tree' = NotWritten
    /\ saved_monitor' = NotWritten
    /\ UNCHANGED <<ext_vars, launch_vars, gnv_vars, val_vars, tree, hook_tree_path,
                   fs_dirs, fs_files, uuid_next, pp_last_tmp>>

\* What may happen in _export_maya_fbx: the maya import or
\* ensure_folder_exists raises, an option command raises, FBXExport raises,
\* register_publish raises, or all goes well.
ExportOutcomes ==
    {"import_raises", "mel_raises", "export_raises", "register_raises", "ok"}

\* One iteration of the first loop: _export_maya_fbx for an FBX item.
PostPublish_Export ==
    /\ pp_pc = "export"
    /\ pp_i <= Len(tree)
    /\ LET item == tree[pp_i]
           folder == Dir(Dirname(item.path), 0)
           fbx == File(folder, Basename(item.path))
           ensured == Event("ensure_folder_exists", folder, <<>>, folder \notin fs_dirs)
           exported == Event("FBXExport", folder, fbx.name, fbx \notin fs_files)
           registered == Event("register_publish", folder, fbx.name, TRUE)
       IN  IF item.type # FbxItemType
           THEN /\ pp_i' = pp_i + 1
                /\ UNCHANGED <<pp_pc, pp_call, pp_log, fs_dirs, fs_files>>
           ELSE \E o \in ExportOutcomes :
                CASE o = "import_raises" ->
                       /\ PostPublish_End("raised")
                       /\ UNCHANGED <<pp_i, pp_log, fs_dirs, fs_files>>
                  [] o # "import_raises" /\ item.path = <<>> ->
                       /\ pp_i' = pp_i + 1
                       /\ UNCHANGED <<pp_pc, pp_call, pp_log, fs_dirs, fs_files>>
                  [] o = "mel_raises" /\ item.path # <<>> ->
                       /\ PostPublish_End("raised")
                       /\ fs_dirs' = fs_dirs \cup {folder}
                       /\ pp_log' = Append(pp_log, ensured)
                       /\ UNCHANGED <<pp_i, fs_files>>
                  [] o = "export_raises" /\ item.path # <<>> ->
                       /\ pp_i' = pp_i + 1
                       /\ fs_dirs' = fs_dirs \cup {folder}
                       /\ pp_log' = Append(pp_log, ensured)
                       /\ UNCHANGED <<pp_pc, pp_call, fs_files>>
                  [] o = "register_raises" /\ item.path # <<>> ->
                       /\ pp_i' = pp_i + 1
                       /\ fs_dirs' = fs_dirs \cup {folder}
                       /\ fs_files' = fs_files \cup {fbx}
                       /\ pp_log' = pp_log \o <<ensured, exported>>
                       /\ UNCHANGED <<pp_pc, pp_call>>
                  [] o = "ok" /\ item.path # <<>> ->
                       /\ pp_i' = pp_i + 1
                       /\ fs_dirs' = fs_dirs \cup {folder}
                       /\ fs_files' = fs_files \cup {fbx}
                       /\ pp_log' = pp_log \o <<ensured, exported, registered>>
                       /\ UNCHANGED <<pp_pc, pp_call>>
    /\ UNCHANGED <<ext_vars, launch_vars, gnv_vars, val_vars, tree, hook_tree_path,
                   uuid_next, pp_calls, pp_last_tmp, monitor_data, saved_tree,
                   saved_monitor, pf_call, pf_launched>>

\* The first loop is over: "if not bg_processing or in_bg_process: return".
PostPublish_Check ==
    /\ pp_pc = "export"
    /\ pp_i > Len(tree)
    /\ IF WantsBackground(pp_call.bg_processing, pp_call.in_bg_process)
       THEN /\ pp_pc' = "assign"
            /\ pp_i' = 1
            /\ UNCHANGED pp_call
       ELSE /\ PostPublish_End("returned")
            /\ UNCHANGED pp_i
    /\ UNCHANGED <<ext_vars, launch_vars, gnv_vars, val_vars, tree, hook_tree_path,
                   fs_dirs, fs_files, uuid_next, pp_log, pp_calls, pp_last_tmp,
                   monitor_data, saved_tree, saved_monitor, pf_call,
                   pf_launched>>

\* How many of the first j tasks are active.
RECURSIVE ActiveUpTo(_, _)
ActiveUpTo(tasks, j) ==
    IF j = 0 THEN 0
    ELSE ActiveUpTo(tasks, j - 1) + (IF tasks[j].active THEN 1 ELSE 0)

\* A loop that gives every task a "Task UUID", active or not.
TasksWithUuidAll(tasks, item_uuid, k) ==
    [j \in 1..Len(tasks) |-> [tasks[j] EXCEPT !.uuid = item_uuid + j]]

\* A loop that hands the item's own uuid to its active tasks.
TasksWithUuidSame(tasks, item_uuid, k) ==
    [j \in 1..Len(tasks) |->
       IF tasks[j].active /\ ActiveUpTo(tasks, j) <= k
       THEN [tasks[j] EXCEPT !.uuid = item_uuid]
       ELSE tasks[j]]

\* item.tasks after the loop over them gave a "Task UUID" to each of the
\* first k active tasks, the uuid4 values following item_uuid.
TasksWithUuid(tasks, item_uuid, k) ==
    [j \in 1..Len(tasks) |->
       IF tasks[j].active /\ ActiveUpTo(tasks, j) <= k
       THEN [tasks[j] EXCEPT !.uuid = item_uuid + ActiveUpTo(tasks, j)]
       ELSE tasks[j]]

\* A task list with an entry for every task, active or not.
RECURSIVE TaskEntriesAll(_, _)
TaskEntriesAll(tasks, j) ==
    IF j = 0 THEN <<>>
    ELSE Append(TaskEntriesAll(tasks, j - 1),
                [name |-> tasks[j].name, uuid |-> tasks[j].uuid,
                 status |-> WAITING_TO_START])

\* item_data["tasks"]: one entry appended for each active task, in the
\* order of item.tasks.
RECURSIVE TaskEntries(_, _)
TaskEntries(tasks, j) ==
    IF j = 0 THEN <<>>
    ELSE IF tasks[j].active
         THEN Append(TaskEntries(tasks, j - 1),
                     [name |-> tasks[j].name, uuid |-> tasks[j].uuid,
                      status |-> WAITING_TO_START])
         ELSE TaskEntries(tasks, j - 1)

\* item_data
ItemData(item, item_uuid, tasks) ==
    [name |-> item.name, uuid |-> item_uuid, status |-> WAITING_TO_START,
     tasks |-> TaskEntries(tasks, Len(tasks))]

\* One iteration of the second loop: a uuid4 for the item, one for each of
\* its active tasks ("Task UUID"), and, when it has an active task, the
\* item's uuid property and its entry in the monitor data.  The thumbnail
\* download or a task's to_dict / from_dict may raise, after the first k
\* active tasks got their setting.
PostPublish_Assign ==
    /\ pp_pc = "assign"
    /\ pp_i <= Len(tree)
    /\ LET item == tree[pp_i]
           item_uuid == uuid_next + 1
           n == ActiveUpTo(item.tasks, Len(item.tasks))
       IN  \/ LET tasks == TasksWithUuid(item.tasks, item_uuid, n)
                  item_data == ItemData(item, item_uuid, tasks)
              IN  /\ tree' = [tree EXCEPT ![pp_i] =
                                [item EXCEPT !.tasks = tasks,
                                             !.uuid = IF item_data.tasks # <<>>
                                                      THEN item_uuid ELSE @]]
                  /\ monitor_data' = IF item_data.tasks # <<>>
                                     THEN Append(monitor_data, item_data)
                                     ELSE monitor_data
                  /\ uuid_next' = uuid_next + 1 + n
                  /\ pp_i' = pp_i + 1
                  /\ UNCHANGED <<pp_pc, pp_call>>
           \/ \E k \in 0..n :
                /\ k < n \/ n = 0
                /\ tree' = [tree EXCEPT ![pp_i] =
                              [item EXCEPT !.tasks =
                                 TasksWithUuid(item.tasks, item_uuid, k)]]
                /\ uuid_next' = uuid_next + k + (IF k > 0 THEN 1 ELSE 0)
                /\ PostPublish_End("raised")
                /\ UNCHANGED <<pp_i, monitor_data>>
    /\ UNCHANGED <<ext_vars, launch_vars, gnv_vars, val_vars, hook_tree_path, fs_dirs,
                   fs_files, pp_log, pp_calls, pp_last_tmp, saved_tree,
                   saved_monitor, pf_call, pf_launched>>

\* The second loop is over: the root folder is made when missing, mkdtemp
\* makes the temporary folder, and the tree file path is stored on the hook.
PostPublish_MakeDirs ==
    /\ pp_pc = "assign"
    /\ pp_i > Len(tree)
    /\ LET root == RootFolderPath
           tmp_folder_path == Mkdtemp(root)
           made_root == IF root \in fs_dirs THEN <<>>
                        ELSE <<Event("makedirs", root, <<>>, TRUE)>>
       IN  \/ \* os.makedirs raises
              /\ root \notin fs_dirs
              /\ PostPublish_End("raised")
              /\ UNCHANGED <<fs_dirs, pp_log, hook_tree_path, pp_last_tmp>>
           \/ \* tempfile.mkdtemp raises
              /\ PostPublish_End("raised")
              /\ fs_dirs' = fs_dirs \cup {root}
              /\ pp_log' = pp_log \o made_root
              /\ UNCHANGED <<hook_tree_path, pp_last_tmp>>
           \/ /\ fs_dirs' = fs_dirs \cup {root, tmp_folder_path}
              /\ pp_log' = pp_log \o made_root
                              \o <<Event("mkdtemp", tmp_folder_path, <<>>,
                                         tmp_folder_path \notin fs_dirs)>>
              /\ hook_tree_path' = SetPath(TreeFilePath(tmp_folder_path))
              /\ pp_call' = [pp_call EXCEPT !.tmp = tmp_folder_path.tmp]
              /\ pp_last_tmp' = [set |-> TRUE, dir |-> tmp_folder_path,
                                 saved |-> FALSE]
              /\ pp_pc' = "save"
    /\ UNCHANGED <<ext_vars, launch_vars, gnv_vars, val_vars, tree, fs_files, uuid_next,
                   pp_i, pp_calls, monitor_data, saved_tree, saved_monitor,
                   pf_call, pf_launched>>

\* publish_tree.save_file(self.__TREE_FILE_PATH)
PostPublish_SaveTree ==
    /\ pp_pc = "save"
    /\ LET file == File(hook_tree_path.dir, hook_tree_path.name)
       IN  \/ \* save_file raises
              /\ PostPublish_End("raised")
              /\ UNCHANGED <<fs_files, pp_log, pp_last_tmp, saved_tree>>
           \/ /\ fs_files' = fs_files \cup {file}
              /\ saved_tree' = [written |-> TRUE, items |-> tree]
              /\ pp_log' = Append(pp_log,
                                  Event("save_file", file.dir, file.name,
                                        file \notin fs_files))
              /\ pp_last_tmp' = [pp_last_tmp EXCEPT !.saved = TRUE]
              /\ pp_pc' = "monitor"
              /\ UNCHANGED pp_call
    /\ UNCHANGED <<ext_vars, launch_vars, gnv_vars, val_vars, tree, hook_tree_path,
                   fs_dirs, uuid_next, pp_i, pp_calls, monitor_data,
                   saved_monitor, pf_call, pf_launched>>

\* open(monitor_file_path, "w+") and yaml.safe_dump(monitor_data, fp)
PostPublish_WriteMonitor ==
    /\ pp_pc = "monitor"
    /\ LET file == MonitorFilePath(Dir(RootFolderPath.parent, pp_call.tmp))
       IN  \/ \* open raises
              /\ PostPublish_End("raised")
              /\ UNCHANGED <<fs_files, pp_log, saved_monitor>>
           \/ /\ fs_files' = fs_files \cup {file}
              /\ saved_monitor' = [written |-> TRUE, items |-> monitor_data]
              /\ pp_log' = Append(pp_log,
                                  Event("safe_dump", file.dir, file.name,
                                        file \notin fs_files))
              /\ PostPublish_End("returned")
    /\ UNCHANGED <<ext_vars, launch_vars, gnv_vars, val_vars, tree, hook_tree_path,
                   fs_dirs, uuid_next, pp_i, pp_calls, pp_last_tmp,
                   monitor_data, saved_tree, pf_call, pf_launched>>

\* post_finalize(publish_tree): in background mode outside the background
\* process it reads self.__TREE_FILE_PATH (AttributeError when no
\* post_publish stored it), asks for the launch and creates the panel.
PostFinalize ==
    /\ pp_pc = "idle"
    /\ \E bg_processing \in BOOLEAN, in_bg_process \in BOOLEAN, launch_ok \in BOOLEAN :
         LET call == [bg_processing |-> bg_processing,
                      in_bg_process |-> in_bg_process]
         IN  IF bg_processing /\ ~in_bg_process
             THEN IF ~hook_tree_path.set
                  THEN /\ pf_call' = [call |-> call, outcome |-> "raised", panel |-> FALSE]
                       /\ pf_launched' = <<>>
                  ELSE /\ pf_launched' =
                            <<File(hook_tree_path.dir, hook_tree_path.name)>>
                       /\ pf_call' =
                            IF launch_ok
                            THEN [call |-> call, outcome |-> "returned", panel |-> TRUE]
                            ELSE [call |-> call, outcome |-> "raised", panel |-> FALSE]
             ELSE /\ pf_call' = [call |-> call, outcome |-> "returned", panel |-> FALSE]
                  /\ pf_launched' = <<>>
    /\ UNCHANGED <<ext_vars, launch_vars, gnv_vars, val_vars, tree, hook_tree_path,
                   fs_dirs, fs_files, uuid_next, pp_pc, pp_i, pp_log, pp_call,
                   pp_calls, pp_last_tmp, monitor_data, saved_tree,
                   saved_monitor>>

PostIdle ==
    /\ tree = <<>>
    /\ hook_tree_path = NoPath
    /\ fs_dirs = {}
    /\ fs_files = {}
    /\ uuid_next = 0
    /\ pp_pc = "idle"
    /\ pp_i = 1
    /\ pp_log = <<>>
    /\ pp_call = NoCallYet
    /\ pp_calls = 0
    /\ pp_last_tmp = NoTmp
    /\ monitor_data = <<>>
    /\ saved_tree = NotWritten
    /\ saved_monitor = NotWritten
    /\ pf_call = NoFinalize
    /\ pf_launched = <<>>

-----------------------------------------------------------------------------
(***************************************************************************)
(* backup/post_phase.py: _export_maya_fbx, one call of Maya at a time       *)
(***************************************************************************)

\* The option commands handed to mel.eval before the export, in the order
\* of the source: the reset first, then the flag settings.
FbxOptionCommands ==
    <<"FBXResetExport",
      "FBXExportUpAxis y",
      "FBXExportScaleFactor 1",
      "FBXExportFileVersion FBX201900",
      "FBXExportSmoothingGroups -v 1",
      "FBXExportHardEdges -v 0",
      "FBXExportTangents -v 1",
      "FBXExportSmoothMesh -v 1",
      "FBXExportInstances -v 0",
      "FBXExportTriangulate -v 1",
      "FBXExportAnimationOnly -v 0",
      "FBXExportBakeComplexAnimation -v 1",
      "FBXExportBakeComplexStart -v 0",
      "FBXExportBakeComplexEnd -v 100",
      "FBXExportBakeComplexStep -v 1",
      "FBXExportInAscii -v 0",
      "FBXExportLights -v 1",
      "FBXExportCameras -v 1",
      "FBXExportConstraints -v 1",
      "FBXExportSkeletonDefinitions -v 1",
      "FBXExportMaterials -v 1",
      "FBXExportTextures -v 1",
      "FBXExportEmbeddedTextures -v 0">>

\* Values of item.properties.get("path", ""): none, and three paths.
ExportPaths == {<<>>, <<"a">>, <<"d", "/", "a">>, <<"d", "/", "e", "/", "a">>}

\* What cmds.ls(selection=True) found.
SelectionFound(selection) ==
    IF selection THEN "cmds.ls: selection" ELSE "cmds.ls: nothing"

\* One call: what was called, the path it was given, whether it returned.
Called(cmd, path, ok) == [cmd |-> cmd, path |-> path, ok |-> ok]

\* f'FBXExport -f "{path}" -s' when there is a selection, and
\* f'FBXExport -f "{path}"' when there is none
WholeSceneAlways(selection) == "FBXExport -f"

FbxExportCommand(selection) ==
    IF selection THEN "FBXExport -f -s" ELSE "FBXExport -f"

\* _export_maya_fbx ends: it returns True or False, or an exception
\* leaves it.
ExportMayaFbx_End(result) ==
    /\ exp_pc' = "done"
    /\ exp_result' = result

\* _export_maya_fbx(item) is called: an item without path is refused, and
\* the publish folder is ensured.
ExportMayaFbx_Call ==
    /\ exp_pc \in {"idle", "done"}
    /\ \E path \in ExportPaths, folder_ok \in BOOLEAN :
         /\ exp_path' = path
         /\ exp_k' = 1
         /\ IF path = <<>>
            THEN /\ ExportMayaFbx_End("False")
                 /\ exp_log' = <<>>
            ELSE /\ exp_log' = <<Called("ensure_folder_exists", Dirname(path),
                                        folder_ok)>>
                 /\ IF folder_ok
                    THEN exp_pc' = "options" /\ exp_result' = "none"
                    ELSE ExportMayaFbx_End("raised")
    /\ UNCHANGED <<base_vars, more_vars, render_vars, asset_vars>>

\* mel.eval of the next option command; an exception leaves the function.
ExportMayaFbx_Option ==
    /\ exp_pc = "options"
    /\ exp_k <= Len(FbxOptionCommands)
    /\ \E ok \in BOOLEAN :
         /\ exp_log' = Append(exp_log, Called(FbxOptionCommands[exp_k], <<>>, ok))
         /\ IF ok
            THEN exp_k' = exp_k + 1 /\ UNCHANGED <<exp_pc, exp_result>>
            ELSE ExportMayaFbx_End("raised") /\ UNCHANGED exp_k
    /\ UNCHANGED <<base_vars, more_vars, render_vars, asset_vars, exp_path>>

\* Inside the try: cmds.ls(selection=True), then the one FBXExport command;
\* an exception of either is caught and the function returns False.
ExportMayaFbx_Export ==
    /\ exp_pc = "options"
    /\ exp_k > Len(FbxOptionCommands)
    /\ \E ls_ok \in BOOLEAN, selection \in BOOLEAN, ok \in BOOLEAN :
         LET asked == Called(SelectionFound(selection), <<>>, ls_ok)
         IN  IF ~ls_ok
             THEN /\ exp_log' = Append(exp_log, asked)
                  /\ ExportMayaFbx_End("False")
             ELSE /\ exp_log' = exp_log \o
                        <<asked, Called(FbxExportCommand(selection), exp_path, ok)>>
                  /\ IF ok
                     THEN exp_pc' = "register" /\ UNCHANGED exp_result
                     ELSE ExportMayaFbx_End("False")
    /\ UNCHANGED <<base_vars, more_vars, render_vars, asset_vars, exp_path, exp_k>>

\* self._register_publish(item, path), still inside the try.
ExportMayaFbx_Register ==
    /\ exp_pc = "register"
    /\ \E ok \in BOOLEAN :
         /\ exp_log' = Append(exp_log, Called("register_publish", exp_path, ok))
         /\ ExportMayaFbx_End(IF ok THEN "True" ELSE "False")
    /\ UNCHANGED <<base_vars, more_vars, render_vars, asset_vars, exp_path, exp_k>>

ExportIdle ==
    /\ exp_pc = "idle"
    /\ exp_path = <<>>
    /\ exp_k = 1
    /\ exp_log = <<>>
    /\ exp_result = "none"

-----------------------------------------------------------------------------
(***************************************************************************)
(* basic/publish_movie.py: _unreal_render_sequence_with_sequencer and      *)
(* _unreal_render_sequence_with_movie_queue                                *)
(***************************************************************************)

\* Most shots in the sequence of a render job.
MaxShots == 2

\* Names of shots; "" is the shot_name of a call that names no shot.
ShotNames == {"sh010", "sh020"}

ShotLists == UNION {[1..n -> ShotNames] : n \in 0..MaxShots}

\* Environment variables: the two the renderers clear, and another one.
EnvNames == {"UE_SHOTGUN_BOOTSTRAP", "UE_SHOTGRID_BOOTSTRAP", "PATH"}

\* Value of a variable that is not in the environment.
Absent == "<absent>"

Environments == [EnvNames -> {Absent, "1"}]

\* del env[name]
Del(env, name) == [env EXCEPT ![name] = Absent]

\* A renderer that forgets the second variable.
ClearShotgunOnly(env) ==
    IF env["UE_SHOTGUN_BOOTSTRAP"] # Absent
    THEN Del(env, "UE_SHOTGUN_BOOTSTRAP") ELSE env

\* if "UE_SHOTGUN_BOOTSTRAP" in run_env: del run_env[...], and the same for
\* UE_SHOTGRID_BOOTSTRAP
ClearBootstrap(env) ==
    LET e == IF env["UE_SHOTGUN_BOOTSTRAP"] # Absent
             THEN Del(env, "UE_SHOTGUN_BOOTSTRAP") ELSE env
    IN  IF e["UE_SHOTGRID_BOOTSTRAP"] # Absent
        THEN Del(e, "UE_SHOTGRID_BOOTSTRAP") ELSE e

\* A loop that leaves every shot as it is.
DisableNoShots(shots, shot_name) == shots

\* for shot in job.shot_info: if shot.outer_name != shot_name:
\*     shot.enabled = False
DisableOtherShots(shots, shot_name) ==
    [k \in 1..Len(shots) |->
       IF shots[k].name # shot_name
       THEN [shots[k] EXCEPT !.enabled = FALSE] ELSE shots[k]]

\* shot_found after the loop
ShotFound(shots, shot_name) ==
    \E k \in 1..Len(shots) : shots[k].name = shot_name

\* A renderer that looks at the exit code of the subprocess.
ReturnPairByExitCode(file, exit_code) ==
    [outcome |-> "returned",
     first |-> IF exit_code = 0 THEN "True" ELSE "False",
     second |-> "output_path"]

\* return os.path.isfile(output_path), output_path
ReturnPair(file, exit_code) ==
    [outcome |-> "returned",
     first |-> IF file # "missing" THEN "True" ELSE "False",
     second |-> "output_path"]

\* A renderer that goes on when the old file could not be removed.
AfterRemoveGoOn(removed) == "env"

\* After os.remove: on to the render, or "return False, None" in the
\* except clause.
AfterRemove(removed) == IF removed THEN "env" ELSE "done"

NoReturn == [outcome |-> "none", first |-> "-", second |-> "-"]

Raised(what) == [outcome |-> what, first |-> "-", second |-> "-"]

NoRenderCall ==
    [renderer |-> "none", shot_name |-> "", file |-> "missing",
     environ |-> [n \in EnvNames |-> Absent]]

\* One of the renderers is called; the file at output_path is whatever an
\* earlier render or anything else left there.
Render_Call ==
    /\ rnd_pc \in {"idle", "done"}
    /\ \E renderer \in {"sequencer", "movie_queue"},
          shot_name \in ShotNames \cup {""} :
         /\ renderer = "sequencer" => shot_name = ""
         /\ rnd_call' = [renderer |-> renderer, shot_name |-> shot_name,
                         file |-> IF movie_file = "missing" THEN "missing"
                                  ELSE "old",
                         environ |-> os_environ]
         /\ rnd_pc' = IF renderer = "sequencer" THEN "remove" ELSE "shots"
    /\ movie_file' = IF movie_file = "missing" THEN "missing" ELSE "old"
    /\ job_shots' = <<>>
    /\ manifest_saved' = FALSE
    /\ sub_runs' = <<>>
    /\ rnd_result' = NoReturn
    /\ UNCHANGED <<base_vars, more_vars, export_vars, asset_vars, os_environ>>

\* Sequencer: "if os.path.isfile(output_path): os.remove(output_path)",
\* and (False, None) when the removal raises OSError.
Sequencer_Remove ==
    /\ rnd_pc = "remove"
    /\ IF movie_file = "missing"
       THEN /\ rnd_pc' = "env"
            /\ UNCHANGED <<movie_file, rnd_result>>
       ELSE \E removed \in BOOLEAN :
              /\ rnd_pc' = AfterRemove(removed)
              /\ IF removed
                 THEN /\ movie_file' = "missing"
                      /\ UNCHANGED rnd_result
                 ELSE /\ rnd_result' = [outcome |-> "returned",
                                        first |-> "False", second |-> "None"]
                      /\ UNCHANGED movie_file
    /\ UNCHANGED <<base_vars, more_vars, export_vars, asset_vars, os_environ, rnd_call, job_shots,
                   manifest_saved, sub_runs>>

\* Movie queue: a new job is allocated for the sequence, its shots all
\* enabled; with a shot_name the other shots are disabled, and ValueError
\* is raised when no shot has the name.
MovieQueue_Shots ==
    /\ rnd_pc = "shots"
    /\ \E names \in ShotLists :
         LET shot_info == [k \in 1..Len(names) |->
                             [name |-> names[k], enabled |-> TRUE]]
             shot_name == rnd_call.shot_name
         IN  IF shot_name # ""
             THEN /\ job_shots' = DisableOtherShots(shot_info, shot_name)
                  /\ IF ShotFound(shot_info, shot_name)
                     THEN rnd_pc' = "manifest" /\ UNCHANGED rnd_result
                     ELSE rnd_pc' = "done" /\ rnd_result' = Raised("ValueError")
             ELSE /\ job_shots' = shot_info
                  /\ rnd_pc' = "manifest"
                  /\ UNCHANGED rnd_result
    /\ UNCHANGED <<base_vars, more_vars, export_vars, asset_vars, os_environ, movie_file, rnd_call,
                   manifest_saved, sub_runs>>

\* Movie queue: save_queue_to_manifest_file, then mkstemp and os.replace
\* rename the manifest; each of them may raise.
MovieQueue_Manifest ==
    /\ rnd_pc = "manifest"
    /\ \E saved \in BOOLEAN, renamed \in BOOLEAN :
         /\ manifest_saved' = saved
         /\ IF saved /\ renamed
            THEN rnd_pc' = "env" /\ UNCHANGED rnd_result
            ELSE rnd_pc' = "done" /\ rnd_result' = Raised("raised")
    /\ UNCHANGED <<base_vars, more_vars, export_vars, asset_vars, os_environ, movie_file, rnd_call,
                   job_shots, sub_runs>>

\* run_env = copy.copy(os.environ): the copy is a new os._Environ object
\* around the same data as os.environ, so the two "del run_env[...]"
\* remove the variables from the data both objects read.
Render_Env ==
    /\ rnd_pc = "env"
    /\ os_environ' = ClearBootstrap(os_environ)
    /\ rnd_pc' = "subprocess"
    /\ UNCHANGED <<base_vars, more_vars, export_vars, asset_vars, movie_file, rnd_call, job_shots,
                   manifest_saved, sub_runs, rnd_result>>

\* subprocess.call(args, env=run_env) and the return statement after it:
\* the call raises when the process cannot be started; a process that ran
\* ended with some exit code and has or has not written the movie.
Render_Subprocess ==
    /\ rnd_pc = "subprocess"
    /\ \E started \in BOOLEAN, exit_code \in {0, 1}, written \in BOOLEAN :
         IF ~started
         THEN /\ rnd_result' = Raised("raised")
              /\ UNCHANGED <<movie_file, sub_runs>>
         ELSE /\ sub_runs' = Append(sub_runs,
                                    [env |-> os_environ, exit_code |-> exit_code,
                                     written |-> written])
              /\ movie_file' = IF written THEN "rendered" ELSE movie_file
              /\ rnd_result' = ReturnPair(movie_file', exit_code)
    /\ rnd_pc' = "done"
    /\ UNCHANGED <<base_vars, more_vars, export_vars, asset_vars, os_environ, rnd_call, job_shots,
                   manifest_saved>>

RenderIdle ==
    /\ os_environ = [n \in EnvNames |-> Absent]
    /\ movie_file = "missing"
    /\ rnd_pc = "idle"
    /\ rnd_call = NoRenderCall
    /\ job_shots = <<>>
    /\ manifest_saved = FALSE
    /\ sub_runs = <<>>
    /\ rnd_result = NoReturn

-----------------------------------------------------------------------------
(***************************************************************************)
(* basic/publish_asset.py: publish and _unreal_export_asset_to_fbx         *)
(***************************************************************************)

\* Values of item.properties["publish_path"].
PublishPaths ==
    {<<"d", "/", "a", ".", "f">>, <<"d", "/", "a", ".", "v", "1">>,
     <<"a", ".", "f">>, <<"d", "/", "a">>}

\* os.path.splitext(name)[0]: name up to its last dot, when that dot is
\* not part of the leading dots.
SplitextRoot(name) ==
    LET dots == {i \in 1..Len(name) :
                   /\ name[i] = "."
                   /\ \E j \in 1..(i - 1) : name[j] # "."}
    IN  IF dots = {} THEN name
        ELSE SubSeq(name, 1, (CHOOSE i \in dots : \A j \in dots : j <= i) - 1)

\* export_task.filename: os.path.join(destination_path, asset_name + ".fbx")
ExportFilename(publish_path) ==
    LET folder == Dirname(publish_path)
        asset_name == SplitextRoot(Basename(publish_path))
    IN  (IF folder = <<>> THEN <<>> ELSE folder \o <<"/">>)
          \o asset_name \o <<".", "f", "b", "x">>

\* One call made by publish: what, on which path, and how it ended:
\* "true" or "false" for a value returned, "raised" for an exception.
AssetCall(call, path, outcome) ==
    [call |-> call, path |-> path, outcome |-> outcome]

\* An export helper that does not look at what the export task returned.
ExportFailedNever(exported) == FALSE

\* if not exported: raise Exception(...)
ExportFailed(exported) == exported # "true"

AssetPublish_End(result) ==
    /\ ap_pc' = "done"
    /\ ap_result' = result

\* publish(settings, item) is called: item.properties["publish_path"] is
\* read (KeyError when validate did not set it), the publish folder is
\* ensured and item.properties["unreal_asset_path"] is read.
AssetPublish_Call ==
    /\ ap_pc \in {"idle", "done"}
    /\ \E has_path \in BOOLEAN, publish_path \in PublishPaths,
          has_asset \in BOOLEAN, folder_ok \in BOOLEAN :
         /\ ap_item' = [has_publish_path |-> has_path,
                        publish_path |-> IF has_path THEN publish_path ELSE <<>>,
                        has_unreal_asset_path |-> has_asset]
         /\ has_path \/ publish_path = <<"d", "/", "a">>
         /\ IF ~has_path
            THEN /\ ap_log' = <<>>
                 /\ AssetPublish_End("raised")
            ELSE /\ ap_log' = <<AssetCall("ensure_folder_exists",
                                          Dirname(publish_path),
                                          IF folder_ok THEN "true" ELSE "raised")>>
                 /\ IF folder_ok /\ has_asset
                    THEN ap_pc' = "export" /\ ap_result' = "none"
                    ELSE AssetPublish_End("raised")
    /\ UNCHANGED <<base_vars, more_vars, export_vars, render_vars, ap_files, ap_publishes>>

\* _unreal_export_asset_to_fbx: the export task is run once; it returns a
\* true or a false value, or raises; a false value raises Exception.
AssetPublish_Export ==
    /\ ap_pc = "export"
    /\ \E exported \in {"true", "false", "raised"} :
         /\ ap_log' = Append(ap_log,
                             AssetCall("run_asset_export_task",
                                       ExportFilename(ap_item.publish_path),
                                       exported))
         /\ ap_files' = IF exported = "true"
                        THEN ap_files \cup {ExportFilename(ap_item.publish_path)}
                        ELSE ap_files
         /\ IF exported = "raised" \/ ExportFailed(exported)
            THEN AssetPublish_End("raised")
            ELSE ap_pc' = "register" /\ UNCHANGED ap_result
    /\ UNCHANGED <<base_vars, more_vars, export_vars, render_vars, ap_item, ap_publishes>>

\* self._register_publish(settings, item, publish_path); return True
AssetPublish_Register ==
    /\ ap_pc = "register"
    /\ \E ok \in BOOLEAN :
         /\ ap_log' = Append(ap_log,
                             AssetCall("_register_publish", ap_item.publish_path,
                                       IF ok THEN "true" ELSE "raised"))
         /\ ap_publishes' = IF ok THEN ap_publishes \cup {ap_item.publish_path}
                            ELSE ap_publishes
         /\ AssetPublish_End(IF ok THEN "True" ELSE "raised")
    /\ UNCHANGED <<base_vars, more_vars, export_vars, render_vars, ap_item, ap_files>>

AssetIdle ==
    /\ ap_pc = "idle"
    /\ ap_item = [has_publish_path |-> FALSE, publish_path |-> <<>>,
                  has_unreal_asset_path |-> FALSE]
    /\ ap_log = <<>>
    /\ ap_result = "none"
    /\ ap_files = {}
    /\ ap_publishes = {}

-----------------------------------------------------------------------------
(***************************************************************************)
(* basic/publish_movie.py: _publish_maya                                   *)
(***************************************************************************)

\* Panels that may have the focus: model panels with any display settings,
\* and a panel of another type (its editor is never touched).
Panels ==
    [type : {"modelPanel"},
     camera : {"perspShape", "shotCamShape"},
     displayAppearance : {"wireframe", "smoothShaded"},
     displayTextures : BOOLEAN,
     displayLights : {"default", "all"}]
    \cup
    [type : {"outlinerPanel"},
     camera : {"none"},
     displayAppearance : {"wireframe"},
     displayTextures : {FALSE},
     displayLights : {"default"}]

\* The cameras of a scene, in the order cmds.ls lists them: the startup
\* camera alone, or with a camera the artist made.
CameraLists ==
    LET persp == [name |-> "perspShape", startupCamera |-> TRUE]
        shot == [name |-> "shotCamShape", startupCamera |-> FALSE]
    IN {<<persp>>, <<persp, shot>>, <<shot, persp>>}

\* The camera of the playblast: the one of the model panel with focus, else
\* the first camera that is no startup camera, else the first camera.
PlayblastCamera(panel, cameras) ==
    IF panel.type = "modelPanel"
    THEN panel.camera
    ELSE LET non_default_cameras ==
                 SelectSeq(cameras, LAMBDA cam : ~cam.startupCamera)
         IN IF non_default_cameras # <<>>
            THEN non_default_cameras[1].name
            ELSE cameras[1].name

\* original_settings = {}
NoSettings ==
    [stored |-> FALSE, displayAppearance |-> "wireframe",
     displayTextures |-> FALSE, displayLights |-> "default"]

\* The three queries that fill original_settings.
StoreSettings(panel) ==
    [stored |-> TRUE, displayAppearance |-> panel.displayAppearance,
     displayTextures |-> panel.displayTextures,
     displayLights |-> panel.displayLights]

\* cmds.modelEditor(current_panel, edit=True, displayAppearance=
\* "smoothShaded", displayTextures=True, displayLights="all")
HighQuality(panel) ==
    [panel EXCEPT !.displayAppearance = "smoothShaded",
                  !.displayTextures = TRUE,
                  !.displayLights = "all"]

\* A finally clause that puts back the appearance only.
RestoreAppearanceOnly(panel, settings) ==
    IF settings.stored
    THEN [panel EXCEPT !.displayAppearance = settings.displayAppearance]
    ELSE panel

\* for setting, value in original_settings.items():
\*     cmds.modelEditor(current_panel, edit=True, **{setting: value})
RestoreSettings(panel, settings) ==
    IF settings.stored
    THEN [panel EXCEPT !.displayAppearance = settings.displayAppearance,
                       !.displayTextures = settings.displayTextures,
                       !.displayLights = settings.displayLights]
    ELSE panel

NoMayaCall == [panel |-> CHOOSE p \in Panels : p.type = "outlinerPanel",
               camera |-> "none", playblast |-> "none"]

\* _publish_maya(settings, item) is called: the publish folder is ensured
\* (item.properties["publish_path"] or ensure_folder_exists may raise), the
\* camera and the playback range are read, and for a model panel the
\* display settings are stored and set for the playblast.
PublishMaya_Call ==
    /\ maya_pc \in {"idle", "done"}
    /\ \E folder_ok \in BOOLEAN :
         IF ~folder_ok
         THEN /\ maya_call' = [panel |-> maya_panel, camera |-> "none",
                               playblast |-> "none"]
              /\ maya_pc' = "done"
              /\ maya_result' = "raised"
              /\ original_settings' = NoSettings
              /\ UNCHANGED maya_panel
         ELSE /\ maya_call' =
                     [panel |-> maya_panel,
                      camera |-> PlayblastCamera(maya_panel, maya_cameras),
                      playblast |-> "none"]
              /\ maya_pc' = "playblast"
              /\ maya_result' = "none"
              /\ IF maya_panel.type = "modelPanel"
                 THEN /\ original_settings' = StoreSettings(maya_panel)
                      /\ maya_panel' = HighQuality(maya_panel)
                 ELSE /\ original_settings' = NoSettings
                      /\ UNCHANGED maya_panel
    /\ UNCHANGED <<not_maya_vars, maya_cameras>>

\* The try block: cmds.playblast writes the movie, writes none, or raises;
\* the function is about to return True, False, or False from the except
\* clause.
PublishMaya_Playblast ==
    /\ maya_pc = "playblast"
    /\ \E outcome \in {"movie", "no movie", "raised"} :
         /\ maya_call' = [maya_call EXCEPT !.playblast = outcome]
         /\ maya_result' = IF outcome = "movie" THEN "True" ELSE "False"
    /\ maya_pc' = "restore"
    /\ UNCHANGED <<not_maya_vars, maya_panel, maya_cameras,
                   original_settings>>

\* The finally clause: for a model panel every stored setting is put back;
\* then the function returns.
PublishMaya_Restore ==
    /\ maya_pc = "restore"
    /\ maya_panel' = IF maya_panel.type = "modelPanel"
                     THEN RestoreSettings(maya_panel, original_settings)
                     ELSE maya_panel
    /\ maya_pc' = "done"
    /\ UNCHANGED <<not_maya_vars, maya_cameras, maya_call, original_settings,
                   maya_result>>

MayaIdle ==
    /\ maya_panel = CHOOSE p \in Panels : p.type = "outlinerPanel"
    /\ maya_cameras = CHOOSE c \in CameraLists : Len(c) = 1
    /\ maya_pc = "idle"
    /\ maya_call = NoMayaCall
    /\ original_settings = NoSettings
    /\ maya_result = "none"

-----------------------------------------------------------------------------
(***************************************************************************)
(* tk-unreal/movie_publisher.py: MoviePublisher.publish                    *)
(***************************************************************************)

\* Values of item.properties["movie_path"].
MoviePaths == {<<"t", "/", "m">>, <<"t", "/", "n">>}

\* Paths publish_template.apply_fields returns; the last has no folder.
MoviePublishPaths == {<<"p", "/", "m">>, <<"q", "/", "m">>, <<"m">>}

\* One call made by publish: what, on which path, and how it ended:
\* "returned" or "raised".
MovieCall(call, path, outcome) ==
    [call |-> call, path |-> path, outcome |-> outcome]

\* os.makedirs(folder): makes the folder, or raises; it raises for the
\* empty name os.path.dirname gives for a path without folder.
MakedirsRaises(folder, ok) == folder = <<>> \/ ~ok

\* A copy helper that swallows what shutil.copy2 raises.
CopyRaisedNever(copied) == FALSE

\* shutil.copy2 raised: _copy_movie_file lets the exception through.
CopyRaised(copied) == ~copied

NoMovieItem == [has_movie_path |-> FALSE, movie_path |-> <<>>,
                publish_path |-> <<>>]

MoviePublisher_End(result) ==
    /\ mpub_pc' = "done"
    /\ mpub_result' = result

\* publish(settings, item) is called: the template is looked up and applied
\* to item.properties; either may raise.
MoviePublisher_Call ==
    /\ mpub_pc \in {"idle", "done"}
    /\ mpub_log' = <<>>
    /\ \E has_movie \in BOOLEAN, movie_path \in MoviePaths,
          template_ok \in BOOLEAN, publish_path \in MoviePublishPaths :
         /\ has_movie \/ movie_path = <<"t", "/", "m">>
         /\ template_ok \/ publish_path = <<"m">>
         /\ mpub_item' =
               [has_movie_path |-> has_movie,
                movie_path |-> IF has_movie THEN movie_path ELSE <<>>,
                publish_path |-> IF template_ok THEN publish_path ELSE <<>>]
         /\ IF template_ok
            THEN mpub_pc' = "folder" /\ mpub_result' = "none"
            ELSE MoviePublisher_End("raised")
    /\ UNCHANGED <<not_mpub_vars, mpub_fs, mpub_publishes>>

\* self._ensure_folder_exists(publish_path): os.makedirs when the folder of
\* the path does not exist.
MoviePublisher_EnsureFolder ==
    /\ mpub_pc = "folder"
    /\ LET folder == Dirname(mpub_item.publish_path) IN
       IF folder \in mpub_fs
       THEN /\ mpub_log' = Append(mpub_log,
                   MovieCall("_ensure_folder_exists", folder, "returned"))
            /\ mpub_pc' = "copy"
            /\ UNCHANGED <<mpub_fs, mpub_result>>
       ELSE \E ok \in BOOLEAN :
            IF MakedirsRaises(folder, ok)
            THEN /\ mpub_log' = Append(mpub_log,
                        MovieCall("_ensure_folder_exists", folder, "raised"))
                 /\ MoviePublisher_End("raised")
                 /\ UNCHANGED mpub_fs
            ELSE /\ mpub_log' = Append(mpub_log,
                        MovieCall("_ensure_folder_exists", folder, "returned"))
                 /\ mpub_fs' = mpub_fs \cup {folder}
                 /\ mpub_pc' = "copy"
                 /\ UNCHANGED mpub_result
    /\ UNCHANGED <<not_mpub_vars, mpub_item, mpub_publishes>>

\* self._copy_movie_file(item.properties["movie_path"], publish_path):
\* KeyError without a movie_path; shutil.copy2 raises when the source does
\* not exist, and may raise when it does.
MoviePublisher_CopyMovie ==
    /\ mpub_pc = "copy"
    /\ IF ~mpub_item.has_movie_path
       THEN /\ MoviePublisher_End("raised")
            /\ UNCHANGED <<mpub_log, mpub_fs>>
       ELSE \E ok \in BOOLEAN :
            LET copied == mpub_item.movie_path \in mpub_fs /\ ok IN
            /\ mpub_log' = Append(mpub_log,
                   MovieCall("_copy_movie_file", mpub_item.publish_path,
                             IF copied THEN "returned" ELSE "raised"))
            /\ mpub_fs' = IF copied
                          THEN mpub_fs \cup {mpub_item.publish_path}
                          ELSE mpub_fs
            /\ IF CopyRaised(copied)
               THEN MoviePublisher_End("raised")
               ELSE mpub_pc' = "register" /\ UNCHANGED mpub_result
    /\ UNCHANGED <<not_mpub_vars, mpub_item, mpub_publishes>>

\* publish_data is built (item.get_thumbnail_as_path() may raise), the
\* publish is registered (it may raise), and publish returns True.
MoviePublisher_Register ==
    /\ mpub_pc = "register"
    /\ \E thumbnail_ok \in BOOLEAN, ok \in BOOLEAN :
         IF ~thumbnail_ok
         THEN /\ ok
              /\ MoviePublisher_End("raised")
              /\ UNCHANGED <<mpub_log, mpub_publishes>>
         ELSE /\ mpub_log' = Append(mpub_log,
                     MovieCall("_register_publish", mpub_item.publish_path,
                               IF ok THEN "returned" ELSE "raised"))
              /\ mpub_publishes' =
                    IF ok THEN mpub_publishes \cup {mpub_item.publish_path}
                    ELSE mpub_publishes
              /\ MoviePublisher_End(IF ok THEN "True" ELSE "raised")
    /\ UNCHANGED <<not_mpub_vars, mpub_item, mpub_fs>>

MoviePublisherIdle ==
    /\ mpub_pc = "idle"
    /\ mpub_item = NoMovieItem
    /\ mpub_log = <<>>
    /\ mpub_result = "none"
    /\ mpub_fs = {}
    /\ mpub_publishes = {}

-----------------------------------------------------------------------------
(***************************************************************************)
(* backup/unreal_asset_publish.py: accept, validate and publish            *)
(***************************************************************************)

\* Values of the setting "Publish Template": none (the default), the name
\* of no template, the name of a template.
TemplateSettings == {"", "no_such_template", "unreal_asset_publish"}

\* self.parent.engine.get_template_by_name(name): the template, or None
\* ("") for a name the configuration does not define.
get_template_by_name(name) ==
    IF name = "unreal_asset_publish" THEN name ELSE ""

\* get_publish_template(settings, item): None without a setting value.
get_publish_template(setting) ==
    IF setting = "" THEN "" ELSE get_template_by_name(setting)

\* Absolute paths the publish template gives.
BackupPublishPaths ==
    {<<"/", "p", "/", "a">>, <<"/", "p", "/", "b">>, <<"/", "q", "/", "a">>}

\* A new item: asset_path and asset_name as the collector set them, no
\* publish_template ("") and no publish_path (<<>>).
NewItem(has_asset) ==
    [has_asset |-> has_asset, publish_template |-> "", publish_path |-> <<>>]

NoReturns == [accept |-> "none", validate |-> "none", publish |-> "none"]

\* One call made by publish and how it ended: a value returned ("True",
\* "False", "None") or "raised".
BackupCall(call, path, outcome) ==
    [call |-> call, path |-> path, outcome |-> outcome]

\* What _unreal_export_asset_to_fbx returns: False when the asset is not
\* loaded, when export_assets returns a false value or raises.
ExportReturn(loaded, exported) ==
    IF loaded /\ exported = "true" THEN "True" ELSE "False"

\* accept(settings, item) on a new item: rejected without asset_path or
\* asset_name; else the template of the settings is stored under
\* "publish_template" when there is one, and the item is accepted.
Backup_Accept ==
    /\ bk_pc \in {"idle", "rejected", "invalid", "done"}
    /\ \E has_asset \in BOOLEAN, setting \in TemplateSettings :
         /\ has_asset \/ setting = ""
         /\ IF ~has_asset
            THEN /\ bk_item' = NewItem(FALSE)
                 /\ bk_ret' = [NoReturns EXCEPT !.accept = "rejected"]
                 /\ bk_pc' = "rejected"
            ELSE /\ bk_item' =
                       [NewItem(TRUE) EXCEPT
                          !.publish_template = get_publish_template(setting)]
                 /\ bk_ret' = [NoReturns EXCEPT !.accept = "accepted"]
                 /\ bk_pc' = "accepted"
    /\ bk_log' = <<>>
    /\ UNCHANGED <<not_backup_vars, bk_files, bk_publishes>>

\* validate(settings, item) on an accepted item: reads
\* item.properties["publish_template"] (KeyError when accept did not set
\* it); False without entity or step or when the template cannot be
\* applied; else the publish path is stored and True returned.
Backup_Validate ==
    /\ bk_pc = "accepted"
    /\ IF bk_item.publish_template = ""
       THEN /\ bk_ret' = [bk_ret EXCEPT !.validate = "KeyError"]
            /\ bk_pc' = "invalid"
            /\ UNCHANGED bk_item
       ELSE \E has_entity \in BOOLEAN, has_step \in BOOLEAN,
               apply_ok \in BOOLEAN, publish_path \in BackupPublishPaths :
            /\ (has_entity /\ has_step /\ apply_ok)
                 \/ publish_path = <<"/", "p", "/", "a">>
            /\ has_entity \/ (has_step /\ apply_ok)
            /\ has_step \/ apply_ok
            /\ IF has_entity /\ has_step /\ apply_ok
               THEN /\ bk_item' = [bk_item EXCEPT !.publish_path = publish_path]
                    /\ bk_ret' = [bk_ret EXCEPT !.validate = "True"]
                    /\ bk_pc' = "valid"
               ELSE /\ bk_ret' = [bk_ret EXCEPT !.validate = "False"]
                    /\ bk_pc' = "invalid"
                    /\ UNCHANGED bk_item
    /\ UNCHANGED <<not_backup_vars, bk_log, bk_files, bk_publishes>>

\* publish(settings, item) is called on a valid item: the destination
\* folder is ensured (os.makedirs may raise).
Backup_Publish_Call ==
    /\ bk_pc = "valid"
    /\ \E ok \in BOOLEAN :
         /\ bk_log' = <<BackupCall("_ensure_destination_path_exists",
                                   Dirname(bk_item.publish_path),
                                   IF ok THEN "None" ELSE "raised")>>
         /\ IF ok
            THEN bk_pc' = "export" /\ UNCHANGED bk_ret
            ELSE /\ bk_pc' = "done"
                 /\ bk_ret' = [bk_ret EXCEPT !.publish = "raised"]
    /\ UNCHANGED <<not_backup_vars, bk_item, bk_files, bk_publishes>>

\* self._unreal_export_asset_to_fbx(...): load_asset and the os.makedirs
\* before the try block may raise; a missing asset, a false value of
\* export_assets and an exception of export_assets make it return False.
\* publish does not look at the value returned.
Backup_Publish_Export ==
    /\ bk_pc = "export"
    /\ LET export_path == Dirname(bk_item.publish_path) IN
       \E before_try_ok \in BOOLEAN, loaded \in BOOLEAN,
          exported \in {"true", "false", "raised"} :
         /\ before_try_ok \/ (loaded /\ exported = "true")
         /\ loaded \/ exported = "true"
         /\ IF ~before_try_ok
            THEN /\ bk_log' = Append(bk_log,
                        BackupCall("_unreal_export_asset_to_fbx", export_path,
                                   "raised"))
                 /\ bk_pc' = "done"
                 /\ bk_ret' = [bk_ret EXCEPT !.publish = "raised"]
                 /\ UNCHANGED bk_files
            ELSE /\ bk_log' = Append(bk_log,
                        BackupCall("_unreal_export_asset_to_fbx", export_path,
                                   ExportReturn(loaded, exported)))
                 /\ bk_files' = IF ExportReturn(loaded, exported) = "True"
                                THEN bk_files \cup {export_path}
                                ELSE bk_files
                 /\ bk_pc' = "register"
                 /\ UNCHANGED bk_ret
    /\ UNCHANGED <<not_backup_vars, bk_item, bk_publishes>>

\* super().publish(settings, item): the base class registers the publish
\* of item.properties["path"], or raises; publish returns None.
Backup_Publish_Register ==
    /\ bk_pc = "register"
    /\ \E ok \in BOOLEAN :
         /\ bk_log' = Append(bk_log,
                BackupCall("super.publish", bk_item.publish_path,
                           IF ok THEN "None" ELSE "raised"))
         /\ bk_publishes' = IF ok THEN bk_publishes \cup {bk_item.publish_path}
                            ELSE bk_publishes
         /\ bk_ret' = [bk_ret EXCEPT
                         !.publish = IF ok THEN "None" ELSE "raised"]
    /\ bk_pc' = "done"
    /\ UNCHANGED <<not_backup_vars, bk_item, bk_files>>

BackupIdle ==
    /\ bk_pc = "idle"
    /\ bk_item = NewItem(FALSE)
    /\ bk_ret = NoReturns
    /\ bk_log = <<>>
    /\ bk_files = {}
    /\ bk_publishes = {}

MoreIdle == MayaIdle /\ MoviePublisherIdle /\ BackupIdle

ExtIdle == ExportIdle /\ RenderIdle /\ AssetIdle /\ MoreIdle

-----------------------------------------------------------------------------
(***************************************************************************)
(* Specifications                                                          *)
(***************************************************************************)

InitLaunch ==
    LaunchIdle /\ VersionIdle /\ ValidateIdle /\ PostIdle /\ ExtIdle

NextLaunch == Execute /\ UNCHANGED <<gnv_vars, val_vars, post_vars, ext_vars>>

SpecLaunch == InitLaunch /\ [][NextLaunch]_vars

InitVersion ==
    LaunchIdle /\ VersionIdle /\ ValidateIdle /\ PostIdle /\ ExtIdle

NextVersion ==
    \/ GetNextVersion_Query
    \/ GetNextVersion_Scan
    \/ GetNextVersion_Return

SpecVersion == InitVersion /\ [][NextVersion]_vars

InitValidate ==
    /\ LaunchIdle
    /\ VersionIdle
    /\ PostIdle
    /\ ExtIdle
    /\ val_ret = "none"
    /\ val_call = NoCall
    /\ item_path \in {[has |-> FALSE, value |-> <<>>]}
                        \cup {[has |-> TRUE, value |-> p] : p \in Paths}
    /\ item_asset_name \in {[has |-> FALSE, value |-> ""],
                             [has |-> TRUE, value |-> "rock"]}
    /\ \/ item_publish_path = Unset /\ item_fields = Unset
       \/ /\ item_publish_path = <<"Prop", "Old", "MDL", "old", 9>>
          /\ item_fields = [Asset |-> "Old", version |-> 9]

NextValidate == Validate

SpecValidate == InitValidate /\ [][NextValidate]_vars

\* The hook instance is new and the publish tree is any of Trees.
InitPost ==
    /\ LaunchIdle
    /\ VersionIdle
    /\ ValidateIdle
    /\ ExtIdle
    /\ tree \in Trees
    /\ hook_tree_path = NoPath
    /\ fs_dirs = {}
    /\ fs_files = {}
    /\ uuid_next = 0
    /\ pp_pc = "idle"
    /\ pp_i = 1
    /\ pp_log = <<>>
    /\ pp_call = NoCallYet
    /\ pp_calls = 0
    /\ pp_last_tmp = NoTmp
    /\ monitor_data = <<>>
    /\ saved_tree = NotWritten
    /\ saved_monitor = NotWritten
    /\ pf_call = NoFinalize
    /\ pf_launched = <<>>

NextPost ==
    \/ PostPublish_Call
    \/ PostPublish_Export
    \/ PostPublish_Check
    \/ PostPublish_Assign
    \/ PostPublish_MakeDirs
    \/ PostPublish_SaveTree
    \/ PostPublish_WriteMonitor
    \/ PostFinalize

SpecPost == InitPost /\ [][NextPost]_vars

InitExport ==
    LaunchIdle /\ VersionIdle /\ ValidateIdle /\ PostIdle /\ ExtIdle

NextExport ==
    \/ ExportMayaFbx_Call
    \/ ExportMayaFbx_Option
    \/ ExportMayaFbx_Export
    \/ ExportMayaFbx_Register

SpecExport == InitExport /\ [][NextExport]_vars

\* Any environment, and a movie file that is or is not there already.
InitRender ==
    /\ LaunchIdle /\ VersionIdle /\ ValidateIdle /\ PostIdle
    /\ ExportIdle /\ AssetIdle /\ MoreIdle
    /\ os_environ \in Environments
    /\ movie_file \in {"missing", "old"}
    /\ rnd_pc = "idle"
    /\ rnd_call = NoRenderCall
    /\ job_shots = <<>>
    /\ manifest_saved = FALSE
    /\ sub_runs = <<>>
    /\ rnd_result = NoReturn

NextRender ==
    \/ Render_Call
    \/ Sequencer_Remove
    \/ MovieQueue_Shots
    \/ MovieQueue_Manifest
    \/ Render_Env
    \/ Render_Subprocess

SpecRender == InitRender /\ [][NextRender]_vars

InitAsset ==
    LaunchIdle /\ VersionIdle /\ ValidateIdle /\ PostIdle /\ ExtIdle

NextAsset ==
    \/ AssetPublish_Call
    \/ AssetPublish_Export
    \/ AssetPublish_Register

SpecAsset == InitAsset /\ [][NextAsset]_vars

\* Any panel has the focus; a model panel looks through a camera of the
\* scene.
InitMaya ==
    /\ LaunchIdle /\ VersionIdle /\ ValidateIdle /\ PostIdle
    /\ ExportIdle /\ RenderIdle /\ AssetIdle
    /\ MoviePublisherIdle /\ BackupIdle
    /\ maya_cameras \in CameraLists
    /\ maya_panel \in Panels
    /\ maya_panel.type = "modelPanel" =>
           \E k \in 1..Len(maya_cameras) :
               maya_cameras[k].name = maya_panel.camera
    /\ maya_pc = "idle"
    /\ maya_call = NoMayaCall
    /\ original_settings = NoSettings
    /\ maya_result = "none"

NextMaya ==
    \/ PublishMaya_Call
    \/ PublishMaya_Playblast
    \/ PublishMaya_Restore

SpecMaya == InitMaya /\ [][NextMaya]_vars

\* The rendered movies and the publish folders may or may not exist.
InitMoviePublisher ==
    /\ LaunchIdle /\ VersionIdle /\ ValidateIdle /\ PostIdle
    /\ ExportIdle /\ RenderIdle /\ AssetIdle /\ MayaIdle /\ BackupIdle
    /\ mpub_pc = "idle"
    /\ mpub_item = NoMovieItem
    /\ mpub_log = <<>>
    /\ mpub_result = "none"
    /\ mpub_fs \in SUBSET (MoviePaths \cup {<<"p">>})
    /\ mpub_publishes = {}

NextMoviePublisher ==
    \/ MoviePublisher_Call
    \/ MoviePublisher_EnsureFolder
    \/ MoviePublisher_CopyMovie
    \/ MoviePublisher_Register

SpecMoviePublisher == InitMoviePublisher /\ [][NextMoviePublisher]_vars

InitBackup ==
    /\ LaunchIdle /\ VersionIdle /\ ValidateIdle /\ PostIdle
    /\ ExportIdle /\ RenderIdle /\ AssetIdle
    /\ MayaIdle /\ MoviePublisherIdle
    /\ BackupIdle

NextBackup ==
    \/ Backup_Accept
    \/ Backup_Validate
    \/ Backup_Publish_Call
    \/ Backup_Publish_Export
    \/ Backup_Publish_Register

SpecBackup == InitBackup /\ [][NextBackup]_vars

-----------------------------------------------------------------------------
(***************************************************************************)
(* Claims about AppLaunch.execute                                          *)
(***************************************************************************)

\* The command a call that returned handed to the shell.
LaunchedCommand == shell[1]

\* C1: the command execute builds follows the platform branch taken: on
\* Linux "<app_path> <app_args> &"; on macOS with an app_path ending in
\* ".app" 'open -n -a "<app_path>"', followed by " --args <app_args>" only
\* when app_args is non-empty; on macOS otherwise "<app_path> <app_args> &";
\* on every other platform 'start /B "App" "<app_path>" <app_args>'.
C1_CommandMatchesPlatform ==
    launch_outcome = "returned" =>
        LET p == launch_call.app_path
            a == launch_call.app_args
            sys == launch_call.system
            bundle == /\ Len(p) >= 4
                      /\ p[Len(p) - 3] = "." /\ p[Len(p) - 2] = "a"
                      /\ p[Len(p) - 1] = "p" /\ p[Len(p)] = "p"
            amp == p \o <<" ">> \o a \o <<" ", "&">>
            opn == <<"o", "p", "e", "n", " ", "-", "n", " ", "-", "a", " ",
                     "\"">> \o p \o <<"\"">>
        IN  launch_result.command =
              CASE sys = "Linux" -> amp
                [] sys = "Darwin" /\ bundle /\ a # <<>> ->
                       opn \o <<" ", "-", "-", "a", "r", "g", "s", " ">> \o a
                [] sys = "Darwin" /\ bundle /\ a = <<>> -> opn
                [] sys = "Darwin" /\ ~bundle -> amp
                [] OTHER ->
                       <<"s", "t", "a", "r", "t", " ", "/", "B", " ", "\"",
                         "A", "p", "p", "\"", " ", "\"">>
                           \o p \o <<"\"", " ">> \o a

\* C1 witness: an app bundle was launched on macOS without arguments.
C1_Witness ==
    /\ launch_outcome = "returned"
    /\ launch_call.system = "Darwin"
    /\ launch_call.app_path = <<"/", "U", ".", "a", "p", "p">>
    /\ launch_call.app_args = <<>>
    /\ Len(launch_result.command) = 19

\* C2 as stated: every call with an engine name ENGINES knows executes
\* exactly one shell command.
C2_ExactlyOneCommandEveryCall ==
    (launch_outcome # "none" /\ launch_call.engine_name \in DOMAIN ENGINES)
        => Len(shell) = 1

\* C2 amended: a call with a known engine name never executes more than one
\* shell command, whatever the exit code; it executes exactly one when it
\* returns, and none when a toolkit query before the launch raised.
C2_NoRetry ==
    (launch_outcome # "none" /\ launch_call.engine_name \in DOMAIN ENGINES)
        => /\ Len(shell) <= 1
           /\ launch_outcome = "returned" => Len(shell) = 1
           /\ launch_outcome = "raised" => Len(shell) = 0

\* C2 witness: the one command failed and the call returned all the same.
C2_Witness ==
    /\ launch_outcome = "returned"
    /\ launch_call.engine_name \in DOMAIN ENGINES
    /\ Len(shell) = 1
    /\ shell_codes[1] = 256

\* C3: the returned dictionary has exactly the keys command and return_code;
\* command is the string handed to the OS shell and return_code the exit
\* code the OS gave for that execution, non-zero included.
C3_ResultReportsExecution ==
    launch_outcome = "returned" =>
        /\ DOMAIN launch_result = {"command", "return_code"}
        /\ shell = <<launch_result.command>>
        /\ shell_codes = <<launch_result.return_code>>

\* C3 witness: a launch whose command the OS answered with exit code 1.
C3_Witness ==
    /\ launch_outcome = "returned"
    /\ shell_codes = <<1>>
    /\ launch_result.return_code = 1

-----------------------------------------------------------------------------
(***************************************************************************)
(* Claims about the backup asset hook's _get_next_version                  *)
(***************************************************************************)

\* The version fields found among the existing paths of the finished call.
VersionsFound ==
    {gnv_paths[i].fields.version :
        i \in {j \in 1..Len(gnv_paths) : "version" \in DOMAIN gnv_paths[j].fields}}

SetMax(S) == CHOOSE m \in S : \A x \in S : x <= m

\* C4: for every non-empty set of existing paths, _get_next_version returns
\* the maximum version field found among them plus one.
C4_ReturnsMaxPlusOne ==
    (gnv_pc = "done" /\ ~gnv_error /\ VersionsFound # {})
        => gnv_result = SetMax(VersionsFound) + 1

\* C5: when no existing path matches and no error occurs, the version
\* returned for the first publish is 1.
C5_FirstVersionIsOne ==
    (gnv_pc = "done" /\ ~gnv_error /\ Len(gnv_paths) = 0) => gnv_result = 1

\* C6: whenever _get_next_version returns without an internal error, its
\* result is a positive integer strictly greater than the version field of
\* every existing path scanned, a path without the field counting as 0.
C6_GreaterThanEveryExisting ==
    (gnv_pc = "done" /\ ~gnv_error) =>
        /\ gnv_outcome = "returned"
        /\ gnv_result \in Nat \ {0}
        /\ \A i \in 1..Len(gnv_paths) :
              gnv_result > Get(gnv_paths[i].fields, "version", 0)

\* C6 witness: three paths scanned, one without a version field, the
\* highest version met after a lower one.
C6_Witness ==
    /\ gnv_pc = "done" /\ ~gnv_error
    /\ gnv_seen = <<0, 2, 3>>
    /\ "version" \notin DOMAIN gnv_paths[1].fields
    /\ gnv_result = 4

\* C7: if the query of the existing paths or the reading of their fields
\* raises, the exception does not reach the caller and the function
\* returns 1, whatever versions had been scanned before.
C7_ExceptionYieldsOne ==
    (gnv_pc = "done" /\ gnv_error) =>
        /\ gnv_outcome = "returned"
        /\ gnv_result = 1

\* C7 witness: version 3 had been scanned when get_fields raised.
C7_Witness ==
    /\ gnv_pc = "done" /\ gnv_error
    /\ gnv_seen = <<3>>
    /\ gnv_version = 3
    /\ gnv_result = 1

-----------------------------------------------------------------------------
(***************************************************************************)
(* Claims about the basic asset hook's validate                            *)
(***************************************************************************)

IsLetter(c) == c \in {"v", "V", "a"}

\* The file name of a path: what follows the last separator.
FileName(s) ==
    LET seps == {i \in 1..Len(s) : s[i] = "/"}
    IN  IF seps = {} THEN s
        ELSE SubSeq(s, (CHOOSE k \in seps : \A m \in seps : m <= k) + 1, Len(s))

\* The number of the vNNN pattern of a file name, a pattern being a "v"
\* that starts the name or follows a non-letter and is followed by digits;
\* 1 when the name has none.
FileNameVersion(path) ==
    IF ~path.has THEN 1
    ELSE LET n == FileName(path.value)
             starts == {i \in 1..Len(n) :
                          /\ IsV(n[i]) /\ IsDigitAt(n, i + 1)
                          /\ (i = 1 \/ ~IsLetter(n[i - 1]))}
         IN  IF starts = {} THEN 1
             ELSE LET i == CHOOSE k \in starts : \A m \in starts : k <= m
                  IN  IntOf(n, i + 1, DigitsEnd(n, i + 1))

\* C8: in validate the version field is the number of the vNNN pattern in
\* the file name of item.properties["path"], and 1 when the path is absent
\* or its file name has no such pattern; a "v" followed by digits in a
\* directory component or inside another word does not determine it.
C8_VersionFromFileName ==
    val_ret = "True" => item_fields["version"] = FileNameVersion(item_path)

\* C23: validate returns True only if the publish template exists, the
\* context has an entity with a non-empty code and sg_asset_type and a step
\* with a non-empty short_name, the template reports no missing key for the
\* collected fields and applies without error; and a validate that returns
\* False leaves item.properties["publish_path"] and
\* item.properties["fields"] as they were.
C23_TrueOnlyIfComplete ==
    [][/\ val_ret' = "True" =>
            /\ val_call'.template_found
            /\ val_call'.has_context
            /\ val_call'.entity.kind = "dict"
            /\ val_call'.entity.code # ""
            /\ val_call'.entity.sg_asset_type # ""
            /\ val_call'.step.kind = "dict"
            /\ val_call'.step.short_name # ""
            /\ val_call'.missing = {}
            /\ val_call'.applied
       /\ val_ret' = "False" =>
            UNCHANGED <<item_publish_path, item_fields>>]_vars

\* C23 witness: entity and step were complete and no key was missing, the
\* template raised when it was applied, validate returned False, and the
\* publish path and fields of an earlier validation are still on the item.
C23_Witness ==
    /\ val_ret = "False"
    /\ val_call.entity.code = "Rock"
    /\ val_call.step.short_name = "MDL"
    /\ val_call.missing = {}
    /\ ~val_call.applied
    /\ item_publish_path = <<"Prop", "Old", "MDL", "old", 9>>
    /\ item_fields = [Asset |-> "Old", version |-> 9]

-----------------------------------------------------------------------------
(***************************************************************************)
(* Claims about PostPhase.post_publish and post_finalize                   *)
(***************************************************************************)

\* The tree files that exist, and the one in the newest temporary folder.
SavedTrees == {f \in fs_files : f.name = <<"publish_tree.yml">>}

NewestSavedTree ==
    CHOOSE f \in SavedTrees : \A g \in SavedTrees : g.dir.tmp <= f.dir.tmp

\* C9 as stated: whenever post_finalize asks for the launch, an earlier
\* post_publish has saved a publish_tree.yml, and the path passed is that of
\* the tree file saved most recently.
C9_LaunchAfterTreeSaved ==
    pf_launched # <<>> =>
        /\ SavedTrees # {}
        /\ pf_launched[1] = NewestSavedTree

\* The events of the current post_publish call, by kind.
LogOf(kinds) == {i \in 1..Len(pp_log) : pp_log[i].ev \in kinds}

InBackgroundMode == pp_call.bg_processing /\ ~pp_call.in_bg_process

PostPublishReturned == pp_pc = "idle" /\ pp_call.outcome = "returned"

\* C10 as stated: post_publish writes publish_tree.yml and monitor.yml if
\* and only if the root item has bg_processing set and in_bg_process not
\* set; both go into one fresh temporary directory under the cache
\* location and engine name, each written once; and when it does not
\* write, no directory or file is created.
C10_WritesPairIffBackground ==
    PostPublishReturned =>
        LET trees == LogOf({"save_file"})
            monitors == LogOf({"safe_dump"})
            temps == LogOf({"mkdtemp"})
        IN  /\ (trees # {} /\ monitors # {}) <=> InBackgroundMode
            /\ Cardinality(trees) <= 1 /\ Cardinality(monitors) <= 1
            /\ \A i \in trees \cup monitors :
                  \E t \in temps : /\ pp_log[t].dir = pp_log[i].dir
                                   /\ pp_log[t].new
            /\ (trees = {} /\ monitors = {}) =>
                  \A i \in 1..Len(pp_log) : ~pp_log[i].new

\* C10 amended: a post_publish call writes neither file unless the root
\* item has bg_processing set and in_bg_process not set, and a call that
\* returns has written both exactly when it is so; the files go into the
\* one temporary directory the call made anew under the cache location and
\* engine name, after it was made, each at most once; outside that mode the
\* call makes no cache folder, temporary directory or yml file, though the
\* FBX export of its maya.fbx.unreal items may make a publish folder and an
\* FBX file.
C10_WritesPairOnlyInBackground ==
    LET trees == LogOf({"save_file"})
        monitors == LogOf({"safe_dump"})
        temps == LogOf({"mkdtemp"})
        cache == LogOf({"makedirs", "mkdtemp", "save_file", "safe_dump"})
    IN  /\ ~InBackgroundMode => cache = {}
        /\ PostPublishReturned =>
              ((Cardinality(trees) = 1 /\ Cardinality(monitors) = 1)
                  <=> InBackgroundMode)
        /\ Cardinality(trees) <= 1
        /\ Cardinality(monitors) <= 1
        /\ Cardinality(temps) <= 1
        /\ \A i \in trees : pp_log[i].name = <<"publish_tree.yml">>
        /\ \A i \in monitors : pp_log[i].name = <<"monitor.yml">>
        /\ \A i \in trees \cup monitors :
              /\ pp_log[i].new
              /\ \E t \in temps :
                    /\ t < i
                    /\ pp_log[t].dir = pp_log[i].dir
                    /\ pp_log[t].new
                    /\ pp_log[t].dir.parent = <<"cache_location", "tk-maya">>
                    /\ pp_log[t].dir.tmp > 0
        /\ (PostPublishReturned /\ ~InBackgroundMode) =>
              \A i \in 1..Len(pp_log) :
                  pp_log[i].new =>
                      pp_log[i].ev \in {"ensure_folder_exists", "FBXExport",
                                        "register_publish"}

\* C10 witness: a second background call returned with both files written
\* into its own new folder, after an FBX item was exported in the same call.
C10_Witness ==
    /\ PostPublishReturned
    /\ InBackgroundMode
    /\ pp_calls = 2
    /\ LogOf({"FBXExport"}) # {}
    /\ \E i \in LogOf({"save_file"}), j \in LogOf({"safe_dump"}) :
          /\ i < j
          /\ pp_log[i].dir = pp_log[j].dir
          /\ pp_log[i].dir.tmp = 2

\* The item has a task that is active.
HasActiveTask(item) == \E j \in 1..Len(item.tasks) : item.tasks[j].active

\* C11: a step gives an item its uuid property only inside a post_publish
\* call whose root has bg_processing set and in_bg_process not set, and only
\* to an item with an active task; a step gives a task its "Task UUID"
\* setting only inside such a call, and only to an active task.  So in
\* foreground publishing and inside the background process nothing is given
\* a uuid.
C11_UuidOnlyInBackground ==
    [][\A i \in 1..Len(tree) :
         /\ tree'[i].uuid # tree[i].uuid =>
               /\ pp_pc = "assign"
               /\ pp_call.bg_processing /\ ~pp_call.in_bg_process
               /\ HasActiveTask(tree[i])
         /\ \A j \in 1..Len(tree[i].tasks) :
               tree'[i].tasks[j].uuid # tree[i].tasks[j].uuid =>
                   /\ pp_pc = "assign"
                   /\ pp_call.bg_processing /\ ~pp_call.in_bg_process
                   /\ tree[i].tasks[j].active]_vars

\* C11 witness: after a background call and then a call outside background
\* mode, the item with an active task still has the uuid of the first call,
\* and the item without active task has none.
C11_Witness ==
    /\ pp_calls = 2
    /\ pp_pc = "idle"
    /\ pp_call.outcome = "returned"
    /\ ~pp_call.bg_processing
    /\ Len(tree) = 2
    /\ HasActiveTask(tree[1]) /\ tree[1].uuid # 0
    /\ ~HasActiveTask(tree[2]) /\ tree[2].uuid = 0
    /\ \A j \in 1..Len(tree[1].tasks) :
          tree[1].tasks[j].active <=> tree[1].tasks[j].uuid # 0

\* The subsequence of s whose elements satisfy Test.
RECURSIVE SelectUpTo(_, _, _)
SelectUpTo(s, Test(_), j) ==
    IF j = 0 THEN <<>>
    ELSE IF Test(s[j]) THEN Append(SelectUpTo(s, Test, j - 1), s[j])
         ELSE SelectUpTo(s, Test, j - 1)

IsActive(task) == task.active

\* The items of a tree that have an active task, and an item's active
\* tasks, both in their order.
ItemsWithActiveTask(items) == SelectUpTo(items, HasActiveTask, Len(items))

ActiveTasks(item) == SelectUpTo(item.tasks, IsActive, Len(item.tasks))

\* A background-mode post_publish returned: both files are its own.
BackgroundFilesWritten ==
    /\ PostPublishReturned
    /\ InBackgroundMode
    /\ saved_tree.written
    /\ saved_monitor.written

\* The identifiers in the monitor data, one per item entry and task entry.
MonitorUuidSlots(items) ==
    UNION {{<<k, j>> : j \in 0..Len(items[k].tasks)} : k \in 1..Len(items)}

MonitorUuidAt(items, slot) ==
    IF slot[2] = 0 THEN items[slot[1]].uuid
    ELSE items[slot[1]].tasks[slot[2]].uuid

\* C16: in the files of one background-mode post_publish, the uuids of all
\* item and task entries of the monitor data are pairwise distinct, and so
\* are the uuid properties and "Task UUID" settings in the saved tree; a
\* task entry's uuid is the "Task UUID" of its task and an item entry's
\* uuid is the item's uuid property; and the tree was saved with all of
\* them assigned.
C16_UuidsDistinctAndMatching ==
    BackgroundFilesWritten =>
        LET entries == saved_monitor.items
            slots == MonitorUuidSlots(entries)
            listed == ItemsWithActiveTask(saved_tree.items)
        IN  /\ \A a \in slots, b \in slots :
                  a # b => MonitorUuidAt(entries, a) # MonitorUuidAt(entries, b)
            /\ Len(entries) = Len(listed)
            /\ \A k \in 1..Len(entries) :
                  /\ entries[k].uuid = listed[k].uuid
                  /\ entries[k].uuid # 0
                  /\ Len(entries[k].tasks) = Len(ActiveTasks(listed[k]))
                  /\ \A j \in 1..Len(entries[k].tasks) :
                        /\ entries[k].tasks[j].uuid = ActiveTasks(listed[k])[j].uuid
                        /\ entries[k].tasks[j].uuid # 0
            /\ saved_tree.items = tree

\* C16 witness: two items of the same name, one of them with two active
\* tasks of the same name, went through a background-mode post_publish.
C16_Witness ==
    /\ BackgroundFilesWritten
    /\ Len(saved_monitor.items) = 2
    /\ saved_monitor.items[1].name = saved_monitor.items[2].name
    /\ Len(saved_monitor.items[1].tasks) = 2
    /\ saved_monitor.items[1].tasks[1].name = saved_monitor.items[1].tasks[2].name

\* C17: the monitor data a background-mode post_publish wrote has one entry
\* for each item with an active task and none for the others, in tree
\* order; an entry's task list is the item's active tasks in their order;
\* every entry and every task entry has status WAITING_TO_START.
C17_MonitorListsActiveTasks ==
    BackgroundFilesWritten =>
        LET entries == saved_monitor.items
            listed == ItemsWithActiveTask(tree)
        IN  /\ Len(entries) = Len(listed)
            /\ \A i \in 1..Len(tree) :
                  HasActiveTask(tree[i]) <=>
                      \E k \in 1..Len(entries) :
                          /\ entries[k].uuid = tree[i].uuid
                          /\ entries[k].name = tree[i].name
            /\ \A k \in 1..Len(entries) :
                  /\ entries[k].name = listed[k].name
                  /\ entries[k].uuid = listed[k].uuid
                  /\ entries[k].status = WAITING_TO_START
                  /\ entries[k].tasks =
                        [j \in 1..Len(ActiveTasks(listed[k])) |->
                           [name |-> ActiveTasks(listed[k])[j].name,
                            uuid |-> ActiveTasks(listed[k])[j].uuid,
                            status |-> WAITING_TO_START]]

\* C17 witness: a tree of an item without active task and an item whose
\* active tasks have an inactive one between them; only the second is
\* listed, with two tasks.
C17_Witness ==
    /\ BackgroundFilesWritten
    /\ Len(tree) = 2
    /\ ~HasActiveTask(tree[1])
    /\ Len(tree[2].tasks) = 3 /\ ~tree[2].tasks[2].active
    /\ Len(saved_monitor.items) = 1
    /\ Len(saved_monitor.items[1].tasks) = 2
    /\ saved_monitor.items[1].tasks[1].uuid = tree[2].tasks[1].uuid
    /\ saved_monitor.items[1].tasks[2].uuid = tree[2].tasks[3].uuid

-----------------------------------------------------------------------------
(***************************************************************************)
(* Claims about PostPhase._export_maya_fbx                                 *)
(***************************************************************************)

ExportCommands == {"FBXExport -f", "FBXExport -f -s"}

ExportCalls == {i \in 1..Len(exp_log) : exp_log[i].cmd \in ExportCommands}

RegisterCalls == {i \in 1..Len(exp_log) : exp_log[i].cmd = "register_publish"}

OptionCount == Len(FbxOptionCommands)

-----------------------------------------------------------------------------
(***************************************************************************)
(* Claims about the movie renderers                                        *)
(***************************************************************************)

\* The renderer has run its render subprocess and returned.
RenderReturnedAfterRun == rnd_pc = "done" /\ sub_runs # <<>>

C13_CrashYieldsMissingFile ==
    (RenderReturnedAfterRun /\ sub_runs[1].exit_code # 0
        /\ ~sub_runs[1].written) =>
        /\ movie_file = "missing"
        /\ rnd_result.first = "False"

\* The movie queue renderer is past its loop over the shots of the job.
PastShotLoop ==
    /\ rnd_call.renderer = "movie_queue"
    /\ rnd_pc \in {"manifest", "env", "subprocess", "done"}

\* C18: in the movie queue renderer with a shot name that no shot of the
\* sequence has, ValueError is raised, no render subprocess is started and
\* no manifest is saved; ValueError is raised in no other case; with a shot
\* name that is found, a shot of the job is enabled exactly when it has
\* that name.
C18_UnknownShotRaises ==
    PastShotLoop =>
        LET shot_name == rnd_call.shot_name
            found == ShotFound(job_shots, shot_name)
        IN  /\ (shot_name # "" /\ ~found) =>
                  /\ rnd_pc = "done"
                  /\ rnd_result.outcome = "ValueError"
                  /\ sub_runs = <<>>
                  /\ ~manifest_saved
            /\ rnd_result.outcome = "ValueError" => (shot_name # "" /\ ~found)
            /\ (shot_name # "" /\ found) =>
                  \A k \in 1..Len(job_shots) :
                      job_shots[k].enabled <=> job_shots[k].name = shot_name

\* C18 witness: a call named a shot that neither of the two shots of the
\* sequence has; both were disabled before ValueError was raised.
C18_Witness ==
    /\ PastShotLoop
    /\ rnd_call.shot_name = "sh020"
    /\ Len(job_shots) = 2
    /\ ~ShotFound(job_shots, "sh020")
    /\ rnd_result.outcome = "ValueError"
    /\ ~job_shots[1].enabled /\ ~job_shots[2].enabled

\* C19: the sequencer renderer starts its subprocess only with no file at
\* output_path, so a file that was there has been deleted; when the file
\* is still there at the end of a call in which no subprocess ran, the
\* deletion failed, and the call returned (False, None); (False, None) is
\* returned with no subprocess started.
C19_OldFileDeletedFirst ==
    rnd_call.renderer = "sequencer" =>
        /\ rnd_pc \in {"env", "subprocess"} => movie_file = "missing"
        /\ movie_file # "old" \/ sub_runs = <<>>
        /\ rnd_result.second = "None" =>
              /\ rnd_result.outcome = "returned"
              /\ rnd_result.first = "False"
              /\ sub_runs = <<>>
              /\ rnd_pc = "done"
              /\ rnd_call.file = "old" /\ movie_file = "old"
        /\ (rnd_pc = "done" /\ movie_file = "old") =>
              rnd_result.second = "None"

\* C19 witness: a file was there, was deleted, and the subprocess ran;
\* the renderer then found the new movie.
C19_Witness ==
    /\ rnd_call.renderer = "sequencer"
    /\ rnd_call.file = "old"
    /\ rnd_pc = "done"
    /\ sub_runs # <<>>
    /\ movie_file = "rendered"

\* C20: the environment of every render subprocess has neither
\* UE_SHOTGUN_BOOTSTRAP nor UE_SHOTGRID_BOOTSTRAP, and for every other
\* variable what the calling process had when the renderer was called.
C20_SubprocessEnvironment ==
    \A i \in 1..Len(sub_runs) :
        /\ sub_runs[i].env["UE_SHOTGUN_BOOTSTRAP"] = Absent
        /\ sub_runs[i].env["UE_SHOTGRID_BOOTSTRAP"] = Absent
        /\ \A n \in EnvNames \ {"UE_SHOTGUN_BOOTSTRAP", "UE_SHOTGRID_BOOTSTRAP"} :
              sub_runs[i].env[n] = rnd_call.environ[n]

\* C20 witness: both variables and another one were set at the call.
C20_Witness ==
    /\ sub_runs # <<>>
    /\ \A n \in EnvNames : rnd_call.environ[n] # Absent
    /\ sub_runs[1].env["PATH"] # Absent

\* C21: when a renderer call is over, os.environ of the calling process is
\* what it was when the renderer was called; the two bootstrap variables
\* are still set in it if they were set.
C21_CallerEnvironmentUnchanged ==
    rnd_pc = "done" => os_environ = rnd_call.environ

-----------------------------------------------------------------------------
(***************************************************************************)
(* Claims about the basic asset hook's publish                             *)
(***************************************************************************)

ExportTaskRuns ==
    {i \in 1..Len(ap_log) : ap_log[i].call = "run_asset_export_task"}

RegisterRuns == {i \in 1..Len(ap_log) : ap_log[i].call = "_register_publish"}

\* C14 as stated: a publish call that ran its export task has registered
\* the publish and returned True if and only if the task returned a true
\* value; after a false value it raised, registered nothing and did not
\* return True.
C14_SuccessIsExportValue ==
    (ap_pc = "done" /\ ExportTaskRuns # {}) =>
        LET exported == ap_log[CHOOSE i \in ExportTaskRuns : TRUE].outcome
        IN  /\ Cardinality(ExportTaskRuns) = 1
            /\ (RegisterRuns # {} /\ ap_result = "True") <=> exported = "true"
            /\ exported = "false" =>
                  RegisterRuns = {} /\ ap_result = "raised"

\* C14 amended: publish runs the export task at most once; it calls the
\* registration if and only if the task returned a true value, and returns
\* True if and only if the task returned a true value and the registration
\* returned; after a false value, or an exception of the task, it raises
\* with no registration called.
C14_RegistersIffExported ==
    /\ Cardinality(ExportTaskRuns) <= 1
    /\ Cardinality(RegisterRuns) <= 1
    /\ \A r \in RegisterRuns :
          /\ ExportTaskRuns = {r - 1}
          /\ ap_log[r - 1].outcome = "true"
          /\ ap_log[r].path = ap_item.publish_path
    /\ ap_pc = "done" =>
          /\ \A i \in ExportTaskRuns :
                ap_log[i].outcome = "true" <=> RegisterRuns # {}
          /\ \A i \in ExportTaskRuns :
                ap_log[i].outcome \in {"false", "raised"} =>
                    ap_result = "raised"
          /\ ap_result = "True" <=>
                \E r \in RegisterRuns : ap_log[r].outcome = "true"
          /\ ap_result \in {"True", "raised"}

\* C14 witness: a call whose export task returned a true value wrote the
\* FBX file, registered the publish path and returned True.
C14_Witness ==
    /\ ap_pc = "done"
    /\ ap_result = "True"
    /\ ap_publishes = {<<"d", "/", "a", ".", "f">>}
    /\ ap_files = {<<"d", "/", "a", ".", "f", "b", "x">>}
    /\ Len(ap_log) = 3

-----------------------------------------------------------------------------
(***************************************************************************)
(* Claims about _publish_maya                                              *)
(***************************************************************************)

\* C22: when the panel with focus is a model panel and _publish_maya has
\* returned after its playblast (which wrote a movie, wrote none, or
\* raised), the panel's displayAppearance, displayTextures and displayLights
\* are what they were when it was called.
C22_ViewportRestored ==
    (/\ maya_pc = "done"
     /\ maya_call.panel.type = "modelPanel"
     /\ maya_call.playblast \in {"movie", "no movie", "raised"})
    => /\ maya_panel.displayAppearance = maya_call.panel.displayAppearance
       /\ maya_panel.displayTextures = maya_call.panel.displayTextures
       /\ maya_panel.displayLights = maya_call.panel.displayLights

\* A model panel shown in wireframe, without textures and with default
\* lights was set to high quality, the playblast raised, and the function
\* has returned False.
C22_Witness ==
    /\ maya_pc = "done"
    /\ maya_call.playblast = "raised"
    /\ maya_result = "False"
    /\ maya_call.panel.type = "modelPanel"
    /\ maya_call.panel.displayAppearance = "wireframe"
    /\ maya_call.panel.displayTextures = FALSE
    /\ maya_call.panel.displayLights = "default"
    /\ original_settings.stored

-----------------------------------------------------------------------------
(***************************************************************************)
(* Claims about MoviePublisher.publish                                     *)
(***************************************************************************)

\* The names of the calls of a log, in order.
CallNames(log) == [i \in 1..Len(log) |-> log[i].call]

\* C24: the calls of a publish are a beginning of: folder ensured, movie
\* copied, publish registered; the registration follows a copy to the same
\* publish path that returned; the registered paths are files that exist;
\* and publish has returned True only when its last call is a registration
\* that returned.
C24_FolderCopyRegister ==
    /\ \E n \in 0..3 :
         CallNames(mpub_log) =
           SubSeq(<<"_ensure_folder_exists", "_copy_movie_file",
                    "_register_publish">>, 1, n)
    /\ \A i \in 1..Len(mpub_log) :
         mpub_log[i].call = "_register_publish" =>
           /\ i > 1
           /\ mpub_log[i - 1] =
                MovieCall("_copy_movie_file", mpub_log[i].path, "returned")
    /\ mpub_publishes \subseteq mpub_fs
    /\ mpub_result = "True" =>
         /\ mpub_pc = "done"
         /\ mpub_log # <<>>
         /\ mpub_log[Len(mpub_log)] =
              MovieCall("_register_publish", mpub_item.publish_path,
                        "returned")
         /\ mpub_item.publish_path \in mpub_publishes

\* C24 witness: the folder q was made, the movie copied to q/m and the
\* publish registered; publish returned True.
C24_Witness ==
    /\ mpub_result = "True"
    /\ mpub_log = <<MovieCall("_ensure_folder_exists", <<"q">>, "returned"),
                    MovieCall("_copy_movie_file", <<"q", "/", "m">>,
                              "returned"),
                    MovieCall("_register_publish", <<"q", "/", "m">>,
                              "returned")>>
    /\ <<"q", "/", "m">> \in mpub_fs

-----------------------------------------------------------------------------
(***************************************************************************)
(* Claims about the backup asset hook                                      *)
(***************************************************************************)

\* C25: an item that accept has accepted has the property
\* "publish_template", and validate on it does not fail reading it.
C25_AcceptedHasTemplate ==
    bk_ret.accept = "accepted" =>
        /\ bk_item.publish_template # ""
        /\ bk_ret.validate # "KeyError"

\* The export call of the log, when publish made one.
ExportCallOf(log) ==
    {i \in 1..Len(log) : log[i].call = "_unreal_export_asset_to_fbx"}

\* C26: publish lets the base class register the publish only after an
\* export that returned True: not when the asset could not be loaded, when
\* export_assets reported failure or when the export raised.
C26_RegisteredOnlyIfExported ==
    \A i \in 1..Len(bk_log) :
        bk_log[i].call = "super.publish" =>
            \E j \in ExportCallOf(bk_log) :
                j < i /\ bk_log[j].outcome = "True"

=============================================================================
